---------------------------- MODULE Spec2Model ----------------------------
(***************************************************************************)
(* Model of the text-intelligence layer of the Magma note application:     *)
(* the task parser and status writer (lib/taskParser), the backlink index  *)
(* builder (lib/backlinks), the tag extractor (lib/tagParser) and the      *)
(* re-index orchestration in App.tsx.                                      *)
(*                                                                         *)
(* Strings are sequences of one-character strings, so that the regular     *)
(* expressions of the source are computed position by position.  An        *)
(* optional value (a field that may be undefined) is a sequence of length  *)
(* at most one: None is undefined, Some(v) is the value v.                 *)
(***************************************************************************)
EXTENDS Integers, Sequences, FiniteSets, TLC

VARIABLES
    tkContent,     \* taskParser: the Markdown content now in the note
    tkTasks,       \* taskParser: the tasks returned by the last parse
    tkArg,         \* taskParser: the task handed to updateTaskStatus
    tkNew,         \* taskParser: the status handed to updateTaskStatus
    tkResult,      \* taskParser: what updateTaskStatus returned or threw
    tkReparsed,    \* taskParser: the parse of the updated content
    tkPc,          \* taskParser: position of the caller
    blNotes,       \* backlinks: the note tree handed to buildBacklinksIndex
    blLoad,        \* backlinks: what getNoteContent gives for each path
    blIndex,       \* backlinks: the index under construction, then returned
    blI,           \* backlinks: how many notes the loop has handled
    blPc,          \* backlinks: position of the build and of its reader
    blFor,         \* backlinks: the note getBacklinks was asked about
    blBacklinks,   \* backlinks: what getBacklinks returned
    vaultPath,     \* App: the vault in use, None before one is chosen
    notes,         \* App: the note tree of the vault
    selectedNote,  \* App: the note shown in the editor, None when there is none
    noteContent,   \* App: the content the editor holds
    tasks,         \* App: the tasks of the content the editor holds
    tasksAll,      \* App: the vault-wide task collection
    allTags,       \* App: the vault-wide tag set
    section,       \* App: the section on screen
    backlinksIndex,\* App: the backlink index last published
    saveTimer,     \* App: an autosave timeout is pending (saveTimeoutRef)
    armedAt,       \* how many edits had been made when that timeout was armed
    isInitialLoad, \* App: isInitialLoadRef
    isRefreshing,  \* App: isRefreshingRef, the in-flight flag of refreshAllTasks
    disk,          \* the content of each note file
    refreshes,     \* the invocations of refreshAllTasks past their guard
    refreshTimers, \* the pending timeouts that call refreshAllTasks
    ld,            \* position of loadNotes
    opens,         \* the invocations of openNote awaiting a read or a build
    tg,            \* the invocation of updateTaskStatusInFile
    chains,        \* the autosave callbacks awaiting a write or a build
    sv,            \* the invocation of saveNote
    used,          \* how many inputs of each kind the user and the file system gave
    dropped,       \* flips whenever refreshAllTasks returns at its guard
    tpText,        \* tagParser: the Markdown text handed to extractHashtags
    tpTags,        \* tagParser: what extractHashtags returned
    tpLine,        \* tagParser: the line (1-based) handed to extractHashtagsFromLine
    tpLineTags,    \* tagParser: what extractHashtagsFromLine returned
    tpPc           \* tagParser: position of the caller

taskVars == <<tkContent, tkTasks, tkArg, tkNew, tkResult, tkReparsed, tkPc>>

blVars == <<blNotes, blLoad, blIndex, blI, blPc, blFor, blBacklinks>>

appVars == <<vaultPath, notes, selectedNote, noteContent, tasks, tasksAll,
            allTags, section, backlinksIndex, saveTimer, armedAt,
            isInitialLoad, isRefreshing, disk, refreshes, refreshTimers, ld, opens, tg,
            chains, sv, used, dropped>>

tagVars == <<tpText, tpTags, tpLine, tpLineTags, tpPc>>

\* what the actions of one specification leave alone
exceptTask == <<blVars, appVars, tagVars>>
exceptBl == <<taskVars, appVars, tagVars>>
exceptApp == <<taskVars, blVars, tagVars>>
exceptTag == <<taskVars, blVars, appVars>>

vars == <<tkContent, tkTasks, tkArg, tkNew, tkResult, tkReparsed, tkPc,
          blNotes, blLoad, blIndex, blI, blPc, blFor, blBacklinks,
          vaultPath, notes, selectedNote, noteContent, tasks, tasksAll,
          allTags, section, backlinksIndex, saveTimer, armedAt,
          isInitialLoad, isRefreshing, disk, refreshes, refreshTimers, ld, opens, tg,
          chains, sv, used, dropped,
          tpText, tpTags, tpLine, tpLineTags, tpPc>>

-----------------------------------------------------------------------------
(* Bounds of the model *)

MaxLines == 2
\* the largest number of file notes in a vault of the backlink model
MaxNotes == 3

-----------------------------------------------------------------------------
(* Optional values *)

None == <<>>
Some(v) == <<v>>
IsSome(o) == Len(o) = 1
Get(o) == o[1]

-----------------------------------------------------------------------------
(* Characters and JavaScript string primitives *)

UpperLetters == <<"A","B","C","D","E","F","G","H","I","J","K","L","M",
                  "N","O","P","Q","R","S","T","U","V","W","X","Y","Z">>
LowerLetters == <<"a","b","c","d","e","f","g","h","i","j","k","l","m",
                  "n","o","p","q","r","s","t","u","v","w","x","y","z">>
UpperSet == {UpperLetters[i] : i \in 1..26}
LowerSet == {LowerLetters[i] : i \in 1..26}
Digit == {"0","1","2","3","4","5","6","7","8","9"}
DigitSeq == <<"0","1","2","3","4","5","6","7","8","9">>

\* \w of a regular expression
WordChar == UpperSet \cup LowerSet \cup Digit \cup {"_"}
\* the class [A-Za-z0-9_-]
NameChar == WordChar \cup {"-"}
\* \s of a regular expression, and what String.prototype.trim removes
WS == {" ", "\t", "\r", "\n"}
\* the characters the regular expression dot does not match
LineTerm == {"\n", "\r"}

LowerChar(c) ==
    IF c \in UpperSet
    THEN LowerLetters[CHOOSE i \in 1..26 : UpperLetters[i] = c]
    ELSE c

\* String.prototype.toLowerCase
ToLower(s) == [i \in 1..Len(s) |-> LowerChar(s[i])]

\* String.prototype.trim
Trim(s) ==
    LET n == Len(s)
        keep == {i \in 1..n : s[i] \notin WS}
    IN IF keep = {} THEN <<>>
       ELSE LET first == CHOOSE i \in keep : \A j \in keep : i <= j
                last == CHOOSE i \in keep : \A j \in keep : j <= i
            IN SubSeq(s, first, last)

\* String.prototype.substring(0, k)
Substring0(s, k) == IF Len(s) <= k THEN s ELSE SubSeq(s, 1, k)

\* String.prototype.split on a one-character separator
RECURSIVE Split(_, _)
Split(s, sep) ==
    LET hits == {i \in 1..Len(s) : s[i] = sep}
    IN IF hits = {} THEN <<s>>
       ELSE LET i == CHOOSE i \in hits : \A j \in hits : i <= j
            IN <<SubSeq(s, 1, i - 1)>> \o Split(SubSeq(s, i + 1, Len(s)), sep)

\* Array.prototype.join with a one-character separator
RECURSIVE Join(_, _)
Join(parts, sep) ==
    IF Len(parts) = 0 THEN <<>>
    ELSE IF Len(parts) = 1 THEN parts[1]
    ELSE parts[1] \o <<sep>> \o Join(Tail(parts), sep)

\* the decimal digits of a non-negative number, as template literals print it
RECURSIVE NatToStr(_)
NatToStr(n) ==
    IF n < 10 THEN <<DigitSeq[n + 1]>>
    ELSE NatToStr(n \div 10) \o <<DigitSeq[(n % 10) + 1]>>

\* s holds the string pat at position i (1-based)
HasAt(s, i, pat) ==
    /\ i >= 1
    /\ i + Len(pat) - 1 <= Len(s)
    /\ \A k \in 1..Len(pat) : s[i + k - 1] = pat[k]

\* the first position at or after i that holds no whitespace (greedy \s*)
SkipWS(s, i) ==
    LET stop == {j \in i..Len(s) : s[j] \notin WS}
    IN IF stop = {} THEN Len(s) + 1
       ELSE CHOOSE j \in stop : \A k \in stop : j <= k

\* the end of the longest run of characters of class cls that starts at i
RunEnd(s, i, cls) ==
    LET stop == {j \in i..Len(s) : s[j] \notin cls}
    IN IF stop = {} THEN Len(s)
       ELSE (CHOOSE j \in stop : \A k \in stop : j <= k) - 1

Range(f) == {f[i] : i \in DOMAIN f}

MinOf(S) == CHOOSE i \in S : \A j \in S : i <= j

-----------------------------------------------------------------------------
(* lib/taskParser *)

Status == {"todo", "doing", "done"}
Marks == {" ", "x", "X", "/"}

statusFromMark(mark) ==
    LET lower == LowerChar(mark)
    IN IF lower = "x" THEN "done"
       ELSE IF lower = "/" THEN "doing"
       ELSE "todo"

\* statusToMark with the marks of doing and done exchanged
statusToMarkSwapped(status) ==
    IF status = "done" THEN "/"
    ELSE IF status = "doing" THEN "x"
    ELSE " "

statusToMark(status) ==
    IF status = "done" THEN "x"
    ELSE IF status = "doing" THEN "/"
    ELSE " "

\* /^(\s*)([-*+])\s+\[([ xX\/])\]\s+(.*)$/i : the position of the opening
\* bracket of the checkbox, or 0 when the line does not match
TaskBracketPos(line) ==
    LET n == Len(line)
        m == SkipWS(line, 1)
        b == SkipWS(line, m + 1)
        r == SkipWS(line, b + 3)
    IN IF /\ m <= n
          /\ line[m] \in {"-", "*", "+"}
          /\ b > m + 1
          /\ b + 2 <= n
          /\ line[b] = "["
          /\ line[b + 1] \in Marks
          /\ line[b + 2] = "]"
          /\ r > b + 3
          /\ \A k \in r..n : line[k] \notin LineTerm
       THEN b
       ELSE 0

\* match[4] of the task pattern: the text after the checkbox and its spaces
TaskRemainder(line) ==
    LET b == TaskBracketPos(line)
    IN SubSeq(line, SkipWS(line, b + 3), Len(line))

IsDateAt(s, i) ==
    /\ i >= 1
    /\ i + 9 <= Len(s)
    /\ \A k \in {0, 1, 2, 3, 5, 6, 8, 9} : s[i + k] \in Digit
    /\ s[i + 4] = "-"
    /\ s[i + 7] = "-"

\* the lengths of the optional prefix (?:due[:\s]|@due\()? that match at p,
\* case-insensitively; 0 is the prefix left out
DuePrefixLens(s, p) ==
    {0}
    \cup (IF /\ p + 3 <= Len(s)
             /\ ToLower(SubSeq(s, p, p + 2)) = <<"d","u","e">>
             /\ s[p + 3] \in ({":"} \cup WS)
          THEN {4} ELSE {})
    \cup (IF /\ p + 4 <= Len(s)
             /\ s[p] = "@"
             /\ ToLower(SubSeq(s, p + 1, p + 3)) = <<"d","u","e">>
             /\ s[p + 4] = "("
          THEN {5} ELSE {})

\* /(?:due[:\s]|@due\()?(\d{4}-\d{2}-\d{2})\)?/i, group 1 of the leftmost match
extractDue(line) ==
    LET starts == {p \in 1..Len(line) :
                     \E k \in DuePrefixLens(line, p) : IsDateAt(line, p + k)}
    IN IF starts = {} THEN None
       ELSE LET p == MinOf(starts)
                ks == {k \in DuePrefixLens(line, p) : IsDateAt(line, p + k)}
                \* the optional group is greedy: a prefix that matches is taken
                k == CHOOSE k \in ks : \A j \in ks : j <= k
            IN Some(SubSeq(line, p + k, p + k + 9))

PriorityWords == {<<"l","o","w">>, <<"m","e","d">>, <<"h","i","g","h">>}

\* /#(low|med|high)/i, lowercased
extractPriority(line) ==
    LET hit(p) == {w \in PriorityWords :
                     /\ line[p] = "#"
                     /\ p + Len(w) <= Len(line)
                     /\ ToLower(SubSeq(line, p + 1, p + Len(w))) = w}
        starts == {p \in 1..Len(line) : hit(p) # {}}
    IN IF starts = {} THEN None
       ELSE Some(CHOOSE w \in hit(MinOf(starts)) : TRUE)

\* an owner looked for only in the text before the first # of the line
extractOwnerBeforeHash(line) ==
    LET cut == {p \in 1..Len(line) : line[p] = "#"}
        head == IF cut = {} THEN line ELSE SubSeq(line, 1, MinOf(cut) - 1)
        starts == {p \in 1..Len(head) :
                     /\ head[p] = "@"
                     /\ p + 1 <= Len(head)
                     /\ head[p + 1] \in NameChar}
    IN IF starts = {} THEN None
       ELSE LET p == MinOf(starts)
            IN Some(SubSeq(head, p + 1, RunEnd(head, p + 1, NameChar)))

\* /@([A-Za-z0-9_-]+)/
extractOwner(line) ==
    LET starts == {p \in 1..Len(line) :
                     /\ line[p] = "@"
                     /\ p + 1 <= Len(line)
                     /\ line[p + 1] \in NameChar}
    IN IF starts = {} THEN None
       ELSE LET p == MinOf(starts)
            IN Some(SubSeq(line, p + 1, RunEnd(line, p + 1, NameChar)))

ProjectKeyword == <<"p","r","o","j","e","c","t",":">>

\* /\bproject:([A-Za-z0-9_-]+)/i
extractProject(line) ==
    LET starts == {p \in 1..Len(line) :
                     /\ (p = 1 \/ line[p - 1] \notin WordChar)
                     /\ p + 8 <= Len(line)
                     /\ ToLower(SubSeq(line, p, p + 7)) = ProjectKeyword
                     /\ line[p + 8] \in NameChar}
    IN IF starts = {} THEN None
       ELSE LET p == MinOf(starts)
            IN Some(SubSeq(line, p + 8, RunEnd(line, p + 8, NameChar)))

\* an id made of the text of the line alone
TaskIdOfText(idx, line) == Substring0(Trim(line), 20)

\* `${idx}-${line.trim().substring(0, 20)}`
TaskId(idx, line) == NatToStr(idx) \o <<"-">> \o Substring0(Trim(line), 20)

\* the task pushed for line idx (0-based) of the content
TaskOfLine(idx, line) ==
    [ id |-> TaskId(idx, line),
      title |-> Trim(TaskRemainder(line)),
      status |-> statusFromMark(line[TaskBracketPos(line) + 1]),
      owner |-> extractOwner(line),
      due |-> extractDue(line),
      priority |-> extractPriority(line),
      project |-> extractProject(line),
      notePath |-> None,
      lineNumber |-> Some(idx),
      originalLine |-> Some(line) ]

\* a line yields a task when it matches the pattern and its title is not empty
IsTaskLine(line) ==
    /\ TaskBracketPos(line) # 0
    /\ Trim(TaskRemainder(line)) # <<>>

RECURSIVE TasksFrom(_, _)
TasksFrom(lines, idx) ==
    IF idx >= Len(lines) THEN <<>>
    ELSE (IF IsTaskLine(lines[idx + 1])
          THEN <<TaskOfLine(idx, lines[idx + 1])>>
          ELSE <<>>) \o TasksFrom(lines, idx + 1)

parseTasksFromMarkdown(content) == TasksFrom(Split(content, "\n"), 0)

\* String.prototype.replace(/\[([ xX/])\]/i, `[${newMark}]`): the first bracket
\* group of the line gets the new mark; a line without one is returned as it is
\* the replacement landing on the last bracket group of the line
ReplaceLastMark(line, newMark) ==
    LET hits == {p \in 1..(Len(line) - 2) :
                   /\ line[p] = "["
                   /\ line[p + 1] \in Marks
                   /\ line[p + 2] = "]"}
    IN IF hits = {} THEN line
       ELSE [line EXCEPT ![(CHOOSE p \in hits : \A q \in hits : q <= p) + 1] = newMark]

ReplaceFirstMark(line, newMark) ==
    LET hits == {p \in 1..(Len(line) - 2) :
                   /\ line[p] = "["
                   /\ line[p + 1] \in Marks
                   /\ line[p + 2] = "]"}
    IN IF hits = {} THEN line
       ELSE [line EXCEPT ![MinOf(hits) + 1] = newMark]

Threw == [threw |-> TRUE, value |-> None]
Returned(v) == [threw |-> FALSE, value |-> Some(v)]

\* the guards without the test of originalLine
UpdateRejectsLineOnly(content, task) ==
    \/ task.lineNumber = None
    \/ Get(task.lineNumber) < 0
    \/ Get(task.lineNumber) >= Len(Split(content, "\n"))

\* the two guards of updateTaskStatus that throw
UpdateRejects(content, task) ==
    \/ task.lineNumber = None
    \/ task.originalLine = None
    \/ Get(task.originalLine) = <<>>
    \/ Get(task.lineNumber) < 0
    \/ Get(task.lineNumber) >= Len(Split(content, "\n"))

updateTaskStatus(content, task, newStatus) ==
    IF UpdateRejects(content, task) THEN Threw
    ELSE LET lines == Split(content, "\n")
             lineIndex == Get(task.lineNumber)
             oldLine == lines[lineIndex + 1]
             updatedLine == ReplaceFirstMark(oldLine, statusToMark(newStatus))
         IN Returned(Join([lines EXCEPT ![lineIndex + 1] = updatedLine], "\n"))

-----------------------------------------------------------------------------
(* lib/backlinks *)

\* m.replace(/\[\[|\]\]/g, ''): every "[[" and "]]" is taken out, left to right
RECURSIVE RemoveBrackets(_)
RemoveBrackets(s) ==
    IF Len(s) < 2 THEN s
    ELSE IF \/ (s[1] = "[" /\ s[2] = "[")
            \/ (s[1] = "]" /\ s[2] = "]")
         THEN RemoveBrackets(SubSeq(s, 3, Len(s)))
         ELSE <<s[1]>> \o RemoveBrackets(Tail(s))

\* /\[\[([^\]]+)\]\]/ matches at p: the end of the match, or 0
LinkEndAt(s, p) ==
    IF ~HasAt(s, p, <<"[", "[">>) THEN 0
    ELSE LET e == RunEnd(s, p + 2, {c \in Range(s) : c # "]"})
         IN IF e >= p + 2 /\ HasAt(s, e + 1, <<"]", "]">>) THEN e + 2 ELSE 0

\* content.match(/\[\[([^\]]+)\]\]/g): the matches from position `from` on
RECURSIVE LinkMatches(_, _)
LinkMatches(s, from) ==
    LET starts == {p \in from..Len(s) : LinkEndAt(s, p) # 0}
    IN IF starts = {} THEN <<>>
       ELSE LET p == MinOf(starts)
            IN <<SubSeq(s, p, LinkEndAt(s, p))>> \o LinkMatches(s, LinkEndAt(s, p) + 1)

\* Array.prototype.filter(Boolean) on strings: the empty ones are dropped
RECURSIVE NonEmpty(_)
NonEmpty(q) ==
    IF Len(q) = 0 THEN <<>>
    ELSE (IF Head(q) = <<>> THEN <<>> ELSE <<Head(q)>>) \o NonEmpty(Tail(q))

extractLinks(content) ==
    IF content = <<>> THEN <<>>
    ELSE LET matches == LinkMatches(content, 1)
         IN NonEmpty([i \in 1..Len(matches) |->
                        Trim(Split(RemoveBrackets(matches[i]), "|")[1])])

normalizePath(path) ==
    Trim(ToLower([i \in 1..Len(path) |-> IF path[i] = "\\" THEN "/" ELSE path[i]]))

DotMd == <<".", "m", "d">>

\* s.replace(/\.md$/, '') and, with ignoreCase, s.replace(/\.md$/i, '')
StripMd(s, ignoreCase) ==
    LET n == Len(s)
        tail == IF n >= 3 THEN SubSeq(s, n - 2, n) ELSE <<>>
    IN IF n >= 3 /\ (IF ignoreCase THEN ToLower(tail) ELSE tail) = DotMd
       THEN SubSeq(s, 1, n - 3)
       ELSE s

\* the file notes of the tree, depth first
RECURSIVE flattenNotes(_)
flattenNotes(items) ==
    IF Len(items) = 0 THEN <<>>
    ELSE LET item == Head(items)
         IN (IF item.type = "file" THEN <<item>>
             ELSE IF item.type = "folder" THEN flattenNotes(item.children)
             ELSE <<>>) \o flattenNotes(Tail(items))

\* Map.prototype.set on a map held as a sequence of entries in insertion order
MapSet(map, key, value) ==
    IF \E i \in 1..Len(map) : map[i].key = key
    THEN [i \in 1..Len(map) |-> IF map[i].key = key
                                THEN [key |-> key, value |-> value]
                                ELSE map[i]]
    ELSE Append(map, [key |-> key, value |-> value])

MapHas(map, key) == \E i \in 1..Len(map) : map[i].key = key
MapGet(map, key) == map[CHOOSE i \in 1..Len(map) : map[i].key = key].value
\* map.get(key) || []
MapGetOrEmpty(map, key) == IF MapHas(map, key) THEN MapGet(map, key) ELSE <<>>

\* the key under which a file note is stored in notePathMap
PathKeyOf(item) == normalizePath(StripMd(item.id, TRUE))

\* normalized title -> the notes of that title, in flattened order
RECURSIVE noteTitleMapOf(_, _)
noteTitleMapOf(all, map) ==
    IF Len(all) = 0 THEN map
    ELSE LET item == Head(all)
             normalizedTitle == normalizePath(item.title)
             existing == MapGetOrEmpty(map, normalizedTitle)
         IN noteTitleMapOf(Tail(all), MapSet(map, normalizedTitle, Append(existing, item)))

\* normalized path without extension -> the note
RECURSIVE notePathMapOf(_, _)
notePathMapOf(all, map) ==
    IF Len(all) = 0 THEN map
    ELSE notePathMapOf(Tail(all), MapSet(map, PathKeyOf(Head(all)), Head(all)))

Unresolved == [found |-> FALSE, note |-> <<>>, key |-> <<>>]
Resolved(n, k) == [found |-> TRUE, note |-> n, key |-> k]

\* the last k of the parts, joined again: pathParts.slice(-k).join('/')
SuffixOf(parts, k) == Join(SubSeq(parts, Len(parts) - k + 1, Len(parts)), "/")

\* step 1 and 2: the three path variations, in order
ResolveByPath(normalizedLink, pathMap) ==
    LET pathVariations == << normalizedLink,
                              StripMd(normalizedLink, FALSE),
                              normalizedLink \o DotMd >>
        hits == {i \in 1..3 : MapHas(pathMap, pathVariations[i])}
    IN IF hits = {} THEN Unresolved
       ELSE Resolved(MapGet(pathMap, pathVariations[MinOf(hits)]),
                     pathVariations[MinOf(hits)])

\* step 3: the first stored path whose last segments are the link
ResolveBySuffix(normalizedLink, pathMap) ==
    LET linkParts == Split(normalizedLink, "/")
        hits == {i \in 1..Len(pathMap) :
                   LET pathParts == Split(pathMap[i].key, "/")
                   IN /\ Len(pathParts) >= Len(linkParts)
                      /\ \/ SuffixOf(pathParts, Len(linkParts)) = normalizedLink
                         \/ pathMap[i].key = normalizedLink}
    IN IF "/" \notin Range(normalizedLink) \/ hits = {} THEN Unresolved
       ELSE Resolved(pathMap[MinOf(hits)].value, pathMap[MinOf(hits)].key)

\* step 4: the first note of that title, for a link without a slash
ResolveByTitle(normalizedLink, titleMap) ==
    IF "/" \in Range(normalizedLink) THEN Unresolved
    ELSE LET matchingNotes == MapGetOrEmpty(titleMap, normalizedLink)
         IN IF Len(matchingNotes) > 0
            THEN Resolved(matchingNotes[1], normalizedLink)
            ELSE Unresolved

\* the resolution with the title tried before any path
ResolveLinkTitleFirst(linkText, titleMap, pathMap) ==
    LET normalizedLink == normalizePath(linkText)
        byTitle == ResolveByTitle(normalizedLink, titleMap)
        byPath == ResolveByPath(normalizedLink, pathMap)
    IN IF byTitle.found THEN byTitle
       ELSE IF byPath.found THEN byPath
       ELSE ResolveBySuffix(normalizedLink, pathMap)

\* linkedNote and matchKey for one link text
ResolveLink(linkText, titleMap, pathMap) ==
    LET normalizedLink == normalizePath(linkText)
        byPath == ResolveByPath(normalizedLink, pathMap)
        bySuffix == ResolveBySuffix(normalizedLink, pathMap)
    IN IF byPath.found THEN byPath
       ELSE IF bySuffix.found THEN bySuffix
       ELSE ResolveByTitle(normalizedLink, titleMap)

\* the index after one link of `note` has been handled
AddLink(index, note, linkText, titleMap, pathMap) ==
    LET r == ResolveLink(linkText, titleMap, pathMap)
        existing == MapGetOrEmpty(index, r.key)
    IN IF /\ r.found
          /\ r.key # <<>>
          /\ r.note.id # note.id
          /\ ~\E i \in 1..Len(existing) : existing[i].id = note.id
       THEN MapSet(index, r.key, Append(existing, note))
       ELSE index

RECURSIVE AddLinks(_, _, _, _, _)
AddLinks(index, note, links, titleMap, pathMap) ==
    IF Len(links) = 0 THEN index
    ELSE AddLinks(AddLink(index, note, Head(links), titleMap, pathMap),
                  note, Tail(links), titleMap, pathMap)

\* the catch around the whole loop: a failed load ends the build with nothing
ProcessNoteOrAbort(index, note, loaded, all) ==
    IF loaded = None THEN <<>>
    ELSE IF Get(loaded) = <<>> THEN index
    ELSE AddLinks(index, note, extractLinks(Get(loaded)),
                  noteTitleMapOf(all, <<>>), notePathMapOf(all, <<>>))

\* one round of the loop over allNotes; `loaded` is what getNoteContent gave:
\* None when it rejected, Some(content) otherwise
ProcessNote(index, note, loaded, all) ==
    IF loaded = None \/ Get(loaded) = <<>> THEN index
    ELSE AddLinks(index, note, extractLinks(Get(loaded)),
                  noteTitleMapOf(all, <<>>), notePathMapOf(all, <<>>))

RECURSIVE BuildFrom(_, _, _, _)
BuildFrom(index, all, i, load) ==
    IF i > Len(all) THEN index
    ELSE BuildFrom(ProcessNote(index, all[i], load[all[i].path], all), all, i + 1, load)

\* buildBacklinksIndex with a loader whose answers do not change during the build
buildBacklinksIndex(noteTree, load) ==
    BuildFrom(<<>>, flattenNotes(noteTree), 1, load)

\* Map keyed by id, in insertion order: a note already there is not added again
RECURSIVE DedupById(_, _)
DedupById(q, acc) ==
    IF Len(q) = 0 THEN acc
    ELSE DedupById(Tail(q),
                   IF \E i \in 1..Len(acc) : acc[i].id = Head(q).id
                   THEN [i \in 1..Len(acc) |-> IF acc[i].id = Head(q).id THEN Head(q) ELSE acc[i]]
                   ELSE Append(acc, Head(q)))

\* getBacklinks(note, backlinksIndex); note is None for null
getBacklinks(note, index) ==
    IF note = None THEN <<>>
    ELSE LET normalizedPath == normalizePath(StripMd(Get(note).id, FALSE))
             backlinks == MapGetOrEmpty(index, normalizedPath)
             normalizedTitle == normalizePath(Get(note).title)
             titleBacklinks == MapGetOrEmpty(index, normalizedTitle)
         IN DedupById(backlinks \o titleBacklinks, <<>>)

-----------------------------------------------------------------------------
(* lib/tagParser *)

\* the grave accent (U+0060); a TLA+ string cannot hold that character, so
\* the model writes it as the tilde, which no other text of the model uses
Backtick == "~"

\* the delimiter of a fenced code block
Fence == <<Backtick, Backtick, Backtick>>

\* the spans of the inline-code pattern (a grave accent up to the next one)
\* found from position from on
RECURSIVE InlineCodeRanges(_, _)
InlineCodeRanges(line, from) ==
    LET ticks == {i \in from..Len(line) : line[i] = Backtick}
    IN IF ticks = {} THEN {}
       ELSE LET a == MinOf(ticks)
                closes == {j \in (a + 1)..Len(line) : line[j] = Backtick}
            IN IF closes = {} THEN {}
               ELSE LET b == MinOf(closes)
                    IN {[start |-> a, end |-> b + 1]}
                           \cup InlineCodeRanges(line, b + 1)

\* a test that finds no position inside inline code
IsInInlineCodeNever(ranges, pos) == FALSE

\* isInInlineCode(pos)
IsInInlineCode(ranges, pos) ==
    \E r \in ranges : pos >= r.start /\ pos < r.end

\* the matches of /#([a-zA-Z0-9_-]+)/g from position from on, in order
RECURSIVE HashtagMatches(_, _)
HashtagMatches(line, from) ==
    LET starts == {i \in from..(Len(line) - 1) :
                      line[i] = "#" /\ line[i + 1] \in NameChar}
    IN IF starts = {} THEN <<>>
       ELSE LET i == MinOf(starts)
                e == RunEnd(line, i + 1, NameChar)
            IN <<[index |-> i, name |-> SubSeq(line, i + 1, e)]>>
                   \o HashtagMatches(line, e + 1)

\* where the "]]" of a match of /\[\[([^\]|]+?)\]\]/ that starts at i stands;
\* 0 when the pattern does not match at i
WikilinkTagEndAt(line, i) ==
    IF ~HasAt(line, i, <<"[", "[">>) THEN 0
    ELSE LET stops == {j \in (i + 2)..Len(line) : line[j] \in {"]", "|"}}
         IN IF stops = {} THEN 0
            ELSE LET j == MinOf(stops)
                 IN IF j > i + 2 /\ HasAt(line, j, <<"]", "]">>) THEN j ELSE 0

\* the matches of the wikilink-tag pattern from position from on, in order
RECURSIVE WikilinkTagMatches(_, _)
WikilinkTagMatches(line, from) ==
    LET starts == {i \in from..Len(line) : WikilinkTagEndAt(line, i) # 0}
    IN IF starts = {} THEN <<>>
       ELSE LET i == MinOf(starts)
                j == WikilinkTagEndAt(line, i)
            IN <<[index |-> i, name |-> SubSeq(line, i + 2, j - 1)]>>
                   \o WikilinkTagMatches(line, j + 2)

\* replace(/\s+/g, "-")
RECURSIVE HyphenateSpaces(_)
HyphenateSpaces(s) ==
    IF Len(s) = 0 THEN <<>>
    ELSE IF s[1] \in WS
         THEN <<"-">> \o HyphenateSpaces(SubSeq(s, SkipWS(s, 1), Len(s)))
         ELSE <<s[1]>> \o HyphenateSpaces(Tail(s))

\* the tag a wikilink match stands for; empty when the name trims to nothing
WikilinkTag(name) == HyphenateSpaces(ToLower(Trim(Split(name, "|")[1])))

\* the tags one line outside a code block adds
TagsOfLine(line) ==
    LET ranges == InlineCodeRanges(line, 1)
        hs == HashtagMatches(line, 1)
        ws == WikilinkTagMatches(line, 1)
    IN {ToLower(hs[k].name) :
            k \in {k \in 1..Len(hs) : ~IsInInlineCode(ranges, hs[k].index)}}
       \cup
       {WikilinkTag(ws[k].name) :
            k \in {k \in 1..Len(ws) : /\ ~IsInInlineCode(ranges, ws[k].index)
                                      /\ Len(Trim(ws[k].name)) > 0}}

\* the loop over the lines with the fence test taken out
TagsOfLinesUnfenced(lines, inCodeBlock) ==
    UNION {TagsOfLine(lines[i]) : i \in 1..Len(lines)}

\* the loop over the lines, carrying inCodeBlock
RECURSIVE TagsOfLines(_, _)
TagsOfLines(lines, inCodeBlock) ==
    IF Len(lines) = 0 THEN {}
    ELSE IF HasAt(Trim(Head(lines)), 1, Fence)
         THEN TagsOfLines(Tail(lines), ~inCodeBlock)
         ELSE IF inCodeBlock
              THEN TagsOfLines(Tail(lines), inCodeBlock)
              ELSE TagsOfLine(Head(lines)) \cup TagsOfLines(Tail(lines), inCodeBlock)

\* the characters of the model in UTF-16 code unit order
CodeOrder ==
    <<"\t", "\n", "\r", " ", "#", "(", ")", "*", "+", "-", ".", "/">>
    \o DigitSeq \o <<":", "@">> \o UpperLetters
    \o <<"[", "]", "_", Backtick>> \o LowerLetters \o <<"|">>

CodeOf(c) == CHOOSE i \in 1..Len(CodeOrder) : CodeOrder[i] = c

\* a < b as Array.prototype.sort compares strings by default
RECURSIVE StrLess(_, _)
StrLess(a, b) ==
    IF Len(b) = 0 THEN FALSE
    ELSE IF Len(a) = 0 THEN TRUE
    ELSE IF a[1] = b[1] THEN StrLess(Tail(a), Tail(b))
    ELSE CodeOf(a[1]) < CodeOf(b[1])

\* Array.from(tags).sort()
RECURSIVE SortStrings(_)
SortStrings(S) ==
    IF S = {} THEN <<>>
    ELSE LET m == CHOOSE x \in S : \A y \in S \ {x} : StrLess(x, y)
         IN <<m>> \o SortStrings(S \ {m})

extractHashtags(text) == SortStrings(TagsOfLines(Split(text, "\n"), FALSE))

\* extractHashtagsFromLine: the same three patterns on one line, with no
\* notion of a fence; the tags are pushed in the order found, the hashtags
\* first and the wikilinks after them, and a tag found twice is pushed twice
extractHashtagsFromLine(line) ==
    LET ranges == InlineCodeRanges(line, 1)
        Outside(m) == ~IsInInlineCode(ranges, m.index)
        Named(m) == Outside(m) /\ Len(Trim(Split(m.name, "|")[1])) > 0
        hs == SelectSeq(HashtagMatches(line, 1), Outside)
        ws == SelectSeq(WikilinkTagMatches(line, 1), Named)
    IN [k \in 1..Len(hs) |-> ToLower(hs[k].name)]
           \o [k \in 1..Len(ws) |-> WikilinkTag(ws[k].name)]

-----------------------------------------------------------------------------
(* The lines and contents the task parser is exercised on *)

Sp == <<" ">>
Box(m) == <<"[", m, "]">>

\* "- [ ] a"
LineTodo == <<"-">> \o Sp \o Box(" ") \o Sp \o <<"a">>
\* "* [x] b [ ] c": a second bracket group inside the title
LineTwoBoxes == <<"*">> \o Sp \o Box("x") \o Sp \o <<"b">> \o Sp \o Box(" ") \o Sp \o <<"c">>
\* " + [/] Do @al #High": indented, with an owner and a priority
LineDoing == Sp \o <<"+">> \o Sp \o Box("/") \o Sp
             \o <<"D","o"," ","@","a","l"," ","#","H","i","g","h">>
\* "- [X] project:p1 due:2025-03-01"
LineMeta == <<"-">> \o Sp \o Box("X") \o Sp
            \o <<"p","r","o","j","e","c","t",":","p","1"," ">>
            \o <<"d","u","e",":","2","0","2","5","-","0","3","-","0","1">>
\* "-[ ] a": no space between the marker and the bracket
LineNoSpace == <<"-">> \o Box(" ") \o Sp \o <<"a">>
\* "- [ ] ": nothing after the checkbox
LineNoTitle == <<"-">> \o Sp \o Box(" ") \o Sp
\* "see [x] here": prose with a bracket group, not a task
LineProse == <<"s","e","e">> \o Sp \o Box("x") \o Sp \o <<"h","e","r","e">>
\* "ok"
LinePlain == <<"o","k">>
\* "-", nineteen spaces, "[ ] z": the checkbox lies beyond the id's 20 characters
LineWide == <<"-">> \o [i \in 1..19 |-> " "] \o Box(" ") \o Sp \o <<"z">>
\* "- [ ] a\r": a line of a file with CRLF line ends
LineCr == LineTodo \o <<"\r">>

\* "- [ ] on 2025-03-01": a date that no due keyword introduces
LineDate == <<"-">> \o Sp \o Box(" ") \o Sp
            \o <<"o","n"," ","2","0","2","5","-","0","3","-","0","1">>

TaskLines == { LineTodo, LineTwoBoxes, LineDoing, LineMeta, LineNoSpace,
               LineNoTitle, LineProse, LinePlain, LineWide, LineCr, LineDate,
               <<>> }

RECURSIVE LineSeqs(_)
LineSeqs(n) ==
    IF n = 0 THEN {<<>>}
    ELSE {<<l>> \o ls : l \in TaskLines, ls \in LineSeqs(n - 1)}

\* every content of one to MaxLines lines of the palette
TaskContents == UNION { {Join(ls, "\n") : ls \in LineSeqs(n)} : n \in 1..MaxLines }

\* task references that do not carry what updateTaskStatus requires
Malformed(t) ==
    { [t EXCEPT !.lineNumber = None],
      [t EXCEPT !.originalLine = None],
      [t EXCEPT !.originalLine = Some(<<>>)],
      [t EXCEPT !.lineNumber = Some(-1)] }

-----------------------------------------------------------------------------
(* The vaults and note contents the backlink index is exercised on *)

VaultRoot == <<"/", "v", "/">>

File(id, title) ==
    [id |-> id, path |-> VaultRoot \o id, title |-> title, type |-> "file",
     children |-> <<>>]
Folder(id, title, children) ==
    [id |-> id, path |-> VaultRoot \o id, title |-> title, type |-> "folder",
     children |-> children]

\* t.md, d/t.md and d/e/t.md share the title "t"; d/e/n.md and d/e/t.md lie
\* two folders deep
FileT == File(<<"t", ".", "m", "d">>, <<"t">>)
FileB == File(<<"b", ".", "m", "d">>, <<"b">>)
FileDT == File(<<"d", "/", "t", ".", "m", "d">>, <<"t">>)
FileDEN == File(<<"d", "/", "e", "/", "n", ".", "m", "d">>, <<"n">>)
FileDET == File(<<"d", "/", "e", "/", "t", ".", "m", "d">>, <<"t">>)

AllFiles == {FileT, FileB, FileDT, FileDEN, FileDET}

Opt(cond, x) == IF cond THEN <<x>> ELSE <<>>

\* the tree listNotes gives for a vault that holds the files S: folders before
\* files, then by title
TreeOf(S) ==
    LET inE == Opt(FileDEN \in S, FileDEN) \o Opt(FileDET \in S, FileDET)
        e == Folder(<<"d", "/", "e">>, <<"e">>, inE)
        inD == Opt(inE # <<>>, e) \o Opt(FileDT \in S, FileDT)
        d == Folder(<<"d">>, <<"d">>, inD)
    IN Opt(inD # <<>>, d) \o Opt(FileB \in S, FileB) \o Opt(FileT \in S, FileT)

Vaults == {TreeOf(S) : S \in {X \in SUBSET AllFiles : X # {} /\ Cardinality(X) <= MaxNotes}}

Link(target) == <<"[", "[">> \o target \o <<"]", "]">>

\* "", "[[t]]", "[[d/t]] [[b|x]]", "[[e/n]]", "[[T.md]]", "see [[n]]"
LinkContents ==
    { <<>>,
      Link(<<"t">>),
      Link(<<"d", "/", "t">>) \o Sp \o Link(<<"b", "|", "x">>),
      Link(<<"e", "/", "n">>),
      Link(<<"T", ".", "m", "d">>),
      <<"s", "e", "e">> \o Sp \o Link(<<"n">>) }

\* what the loader gives for a path: a content, or None when it rejects
LoadResults == {Some(c) : c \in LinkContents} \cup {None}

PathsOf(noteTree) == {n.path : n \in Range(flattenNotes(noteTree))}

-----------------------------------------------------------------------------
(* TaskSpec: a caller of lib/taskParser.  It parses a content, the content  *)
(* may then be edited (a line inserted or removed at the top) while the     *)
(* caller still holds the parsed tasks, and the caller writes a status back *)
(* with one of the tasks it holds and parses the result again.              *)

NoTask == [ id |-> <<>>, title |-> <<>>, status |-> "todo", owner |-> None,
            due |-> None, priority |-> None, project |-> None,
            notePath |-> None, lineNumber |-> None, originalLine |-> None ]

TaskIdle ==
    /\ tkContent = <<>>
    /\ tkTasks = <<>>
    /\ tkArg = NoTask
    /\ tkNew = "todo"
    /\ tkResult = Threw
    /\ tkReparsed = <<>>
    /\ tkPc = "off"

BlIdle ==
    /\ blNotes = <<>>
    /\ blLoad = <<>>
    /\ blIndex = <<>>
    /\ blI = 0
    /\ blPc = "off"
    /\ blFor = None
    /\ blBacklinks = <<>>

\* no updateTaskStatusInFile is running
NoToggle == [pc |-> "idle", task |-> NoTask, status |-> "todo", sel |-> None,
             updated |-> <<>>]

\* no saveNote is running
NoSave == [pc |-> "idle", note |-> None, content |-> <<>>]

NoInputs == [edits |-> 0, toggles |-> 0, opens |-> 0, saves |-> 0, clicks |-> 0,
             faults |-> 0]

NoTimers == [autosave |-> 0, save |-> 0]

\* the state of App after construction (useState and useRef initial values)
AppConstructed ==
    /\ vaultPath = None
    /\ notes = <<>>
    /\ selectedNote = None
    /\ noteContent = <<>>
    /\ tasks = <<>>
    /\ tasksAll = <<>>
    /\ allTags = {}
    /\ section = "dashboard"
    /\ backlinksIndex = <<>>
    /\ saveTimer = FALSE
    /\ armedAt = 0
    /\ isInitialLoad = TRUE
    /\ isRefreshing = FALSE
    /\ refreshes = <<>>
    /\ refreshTimers = NoTimers
    /\ ld = "idle"
    /\ opens = <<>>
    /\ tg = NoToggle
    /\ chains = <<>>
    /\ sv = NoSave
    /\ used = NoInputs
    /\ dropped = 0

AppIdle ==
    /\ AppConstructed
    /\ disk = <<>>

TagIdle ==
    /\ tpText = <<>>
    /\ tpTags = <<>>
    /\ tpLine = 0
    /\ tpLineTags = <<>>
    /\ tpPc = "off"

TaskInit ==
    /\ BlIdle
    /\ AppIdle
    /\ TagIdle
    /\ tkContent \in TaskContents
    /\ tkTasks = <<>>
    /\ tkArg = NoTask
    /\ tkNew = "todo"
    /\ tkResult = Threw
    /\ tkReparsed = <<>>
    /\ tkPc = "start"

TkParse ==
    /\ tkPc = "start"
    /\ tkTasks' = parseTasksFromMarkdown(tkContent)
    /\ tkPc' = "parsed"
    /\ UNCHANGED <<tkContent, tkArg, tkNew, tkResult, tkReparsed>>
    /\ UNCHANGED exceptTask

TkInsertLine ==
    /\ tkPc = "parsed"
    /\ \E l \in TaskLines : tkContent' = l \o <<"\n">> \o tkContent
    /\ tkPc' = "edited"
    /\ UNCHANGED <<tkTasks, tkArg, tkNew, tkResult, tkReparsed>>
    /\ UNCHANGED exceptTask

TkRemoveLine ==
    /\ tkPc = "parsed"
    /\ Len(Split(tkContent, "\n")) > 1
    /\ tkContent' = Join(Tail(Split(tkContent, "\n")), "\n")
    /\ tkPc' = "edited"
    /\ UNCHANGED <<tkTasks, tkArg, tkNew, tkResult, tkReparsed>>
    /\ UNCHANGED exceptTask

TkUpdate ==
    /\ tkPc \in {"parsed", "edited"}
    /\ \E t \in Range(tkTasks), s \in Status :
         \E a \in {t} \cup Malformed(t) :
            /\ tkArg' = a
            /\ tkNew' = s
            /\ tkResult' = updateTaskStatus(tkContent, a, s)
    /\ tkPc' = "updated"
    /\ UNCHANGED <<tkContent, tkTasks, tkReparsed>>
    /\ UNCHANGED exceptTask

TkReparse ==
    /\ tkPc = "updated"
    /\ ~tkResult.threw
    /\ tkReparsed' = parseTasksFromMarkdown(Get(tkResult.value))
    /\ tkPc' = "done"
    /\ UNCHANGED <<tkContent, tkTasks, tkArg, tkNew, tkResult>>
    /\ UNCHANGED exceptTask

TaskNext == TkParse \/ TkInsertLine \/ TkRemoveLine \/ TkUpdate \/ TkReparse

TaskSpec == TaskInit /\ [][TaskNext]_vars

-----------------------------------------------------------------------------
(* MetadataSpec: parseTasksFromMarkdown on one task line that carries any   *)
(* of the four metadata tokens, in any order.                               *)

\* the largest number of metadata tokens on a line
MaxTokens == 4

\* "Ship it"
ShipIt == <<"S","h","i","p"," ","i","t">>
\* "@ana"
TokOwner == <<"@","a","n","a">>
\* "project:launch"
TokProject == ProjectKeyword \o <<"l","a","u","n","c","h">>
\* "due:2025-03-01"
TokDue == <<"d","u","e",":","2","0","2","5","-","0","3","-","0","1">>
\* "#high"
TokPriority == <<"#","h","i","g","h">>

MetaTokens == {TokOwner, TokProject, TokDue, TokPriority}

\* the arrangements of at most n tokens of S, none taken twice
RECURSIVE TokenSeqs(_, _)
TokenSeqs(S, n) ==
    IF n = 0 THEN {<<>>}
    ELSE {<<>>} \cup UNION {{<<t>> \o q : q \in TokenSeqs(S \ {t}, n - 1)} : t \in S}

\* "- [ ] Ship it" followed by the tokens, a space before each
MetaLine(q) == <<"-">> \o Sp \o Box(" ") \o Sp \o Join(<<ShipIt>> \o q, " ")

MetaContents == {MetaLine(q) : q \in TokenSeqs(MetaTokens, MaxTokens)}

MetadataInit ==
    /\ BlIdle
    /\ AppIdle
    /\ TagIdle
    /\ tkContent \in MetaContents
    /\ tkTasks = <<>>
    /\ tkArg = NoTask
    /\ tkNew = "todo"
    /\ tkResult = Threw
    /\ tkReparsed = <<>>
    /\ tkPc = "start"

MetadataSpec == MetadataInit /\ [][TkParse]_vars

-----------------------------------------------------------------------------
(* BacklinkSpec: buildBacklinksIndex over a vault, one note of the loop at  *)
(* a time, and getBacklinks on the index it returns.                        *)

BacklinkInit ==
    /\ TaskIdle
    /\ AppIdle
    /\ TagIdle
    /\ blNotes \in Vaults
    /\ blLoad \in [PathsOf(blNotes) -> LoadResults]
    /\ blIndex = <<>>
    /\ blI = 0
    /\ blPc = "loop"
    /\ blFor = None
    /\ blBacklinks = <<>>

\* lines 85-183: the next note of allNotes is loaded and its links are added
BlProcessNote ==
    /\ blPc = "loop"
    /\ blI < Len(flattenNotes(blNotes))
    /\ LET all == flattenNotes(blNotes)
           note == all[blI + 1]
       IN blIndex' = ProcessNote(blIndex, note, blLoad[note.path], all)
    /\ blI' = blI + 1
    /\ UNCHANGED <<blNotes, blLoad, blPc, blFor, blBacklinks>>
    /\ UNCHANGED exceptBl

\* line 186: the index is returned
BlReturn ==
    /\ blPc = "loop"
    /\ blI = Len(flattenNotes(blNotes))
    /\ blPc' = "built"
    /\ UNCHANGED <<blNotes, blLoad, blIndex, blI, blFor, blBacklinks>>
    /\ UNCHANGED exceptBl

\* getBacklinks for a note of the vault
BlQuery ==
    /\ blPc = "built"
    /\ \E n \in Range(flattenNotes(blNotes)) :
         /\ blFor' = Some(n)
         /\ blBacklinks' = getBacklinks(Some(n), blIndex)
    /\ blPc' = "queried"
    /\ UNCHANGED <<blNotes, blLoad, blIndex, blI>>
    /\ UNCHANGED exceptBl

\* getBacklinks for null
BlQueryNull ==
    /\ blPc = "built"
    /\ blFor' = None
    /\ blBacklinks' = getBacklinks(None, blIndex)
    /\ blPc' = "queried"
    /\ UNCHANGED <<blNotes, blLoad, blIndex, blI>>
    /\ UNCHANGED exceptBl

BacklinkNext == BlProcessNote \/ BlReturn \/ BlQuery \/ BlQueryNull

BacklinkSpec == BacklinkInit /\ [][BacklinkNext]_vars

-----------------------------------------------------------------------------
(* AppSpec: the orchestration in App.tsx.  One action is one handler, or    *)
(* the part of an async handler between two awaits.  A render happens       *)
(* between any two actions, so notesRef, noteContentRef and selectedNoteRef *)
(* (lines 99-101) are the state variables themselves.  saveStatus and the   *)
(* filters of the task views are display state that no handler reads.       *)

\* how many invocations of refreshAllTasks may be past the guard at once
MaxInFlight == 2
\* how many invocations of openNote may be awaiting at once
MaxOpening == 2
\* how many autosave callbacks may be awaiting at once
MaxChains == 1
\* how many inputs of each kind the user gives
MaxEdits == 3
MaxToggles == 1
MaxOpens == 1
MaxSaves == 1
MaxClicks == 2
\* how many inputs the user gives in all
MaxInputs == 3
\* how many reads and writes of files fail
MaxFaults == 1

\* the user may give one more input
MayInput ==
    used.edits + used.toggles + used.opens + used.saves + used.clicks < MaxInputs

\* the vault holds b.md and t.md
VaultTree == TreeOf({FileB, FileT})

\* "- [ ] a" and, below it, "- [x] b #k"
DocTasks == LineTodo \o <<"\n">> \o <<"-">> \o Sp \o Box("x") \o Sp \o <<"b", " ", "#", "k">>
\* "#w"
DocTag == <<"#", "w">>

\* the contents the files hold when the vault is opened
VaultDisks ==
    { [p \in PathsOf(VaultTree) |-> IF p = FileB.path THEN cb ELSE ct] :
          cb \in {LineTodo, DocTasks}, ct \in {DocTag} }

\* what one input in the editor makes of the content: a line "n" is typed at
\* the end, or a line "#k" is typed at the top
EditsOf(c) ==
    { IF Len(c) = 0 THEN <<"n">> ELSE c \o <<"\n", "n">>,
      <<"#", "k", "\n">> \o c }

\* the status the task views ask for on a click (line 958)
NextStatus(status) ==
    IF status = "todo" THEN "doing"
    ELSE IF status = "doing" THEN "done" ELSE "todo"

\* readNote of every path, as buildBacklinksIndex is given it
ReadAll == [p \in PathsOf(notes) |-> Some(disk[p])]

\* the same, with the content being saved in place of the file of path
ReadAllBut(path, content) ==
    [p \in PathsOf(notes) |-> IF p = path THEN Some(content) ELSE Some(disk[p])]

\* q without its i-th element
RemoveAt(q, i) == SubSeq(q, 1, i - 1) \o SubSeq(q, i + 1, Len(q))

\* the tasks of one note with the title of the note as the project of each
TasksOfNoteTitled(note, content) ==
    IF Len(content) = 0 \/ Len(Trim(content)) = 0 THEN <<>>
    ELSE LET ts == parseTasksFromMarkdown(content)
         IN [i \in 1..Len(ts) |->
                [ts[i] EXCEPT !.notePath = Some(note.path),
                              !.project = Some(note.title)]]

\* lines 313-334: the tasks one note contributes
TasksOfNote(note, content) ==
    IF Len(content) = 0 \/ Len(Trim(content)) = 0 THEN <<>>
    ELSE LET ts == parseTasksFromMarkdown(content)
         IN [i \in 1..Len(ts) |->
                [ts[i] EXCEPT !.notePath = Some(note.path),
                              !.project = IF ts[i].project = None
                                          THEN Some(note.title)
                                          ELSE ts[i].project]]

\* Array.prototype.flat
RECURSIVE Flat(_)
Flat(qs) == IF Len(qs) = 0 THEN <<>> ELSE Head(qs) \o Flat(Tail(qs))

\* a refresh in which one load failed or was empty publishes no task at all
AggregateOrAbort(list, got, i) ==
    IF \E k \in 1..Len(got) : got[k] = Some(<<>>) THEN <<>>
    ELSE Flat([k \in 1..Len(list) |->
                  IF k < i \/ got[k] = None THEN <<>>
                  ELSE TasksOfNote(list[k], Get(got[k]))])

\* contents.flatMap(...) over the loads that have settled
RECURSIVE Aggregate(_, _, _)
Aggregate(list, got, i) ==
    IF i > Len(list) THEN <<>>
    ELSE (IF got[i] = None THEN <<>> ELSE TasksOfNote(list[i], Get(got[i])))
         \o Aggregate(list, got, i + 1)

\* lines 353-356: the tags of the loads that have settled
TagsOfAll(got) ==
    UNION {Range(extractHashtags(Get(got[i]))) : i \in {i \in DOMAIN got : got[i] # None}}

\* the guard of lines 285-288 lets every call through
RefreshBlockedNever == FALSE

\* the guard of lines 285-288
RefreshBlocked == isRefreshing

\* the synchronous head of refreshAllTasks(vault, list), lines 283-309: the
\* guard, the flag, and one load issued for every file note; owner names the
\* caller that awaits the invocation
refreshAllTasks(list, owner) ==
    IF RefreshBlocked
    THEN /\ dropped' = 1 - dropped
         /\ UNCHANGED <<isRefreshing, refreshes>>
    ELSE /\ Len(refreshes) < MaxInFlight
         /\ isRefreshing' = TRUE
         /\ refreshes' = Append(refreshes,
                [owner |-> owner, list |-> flattenNotes(list),
                 got |-> [i \in 1..Len(flattenNotes(list)) |-> None]])
         /\ UNCHANGED dropped

\* the awaited refreshAllTasks of the caller has returned
RefreshReturned(owner) == \A i \in 1..Len(refreshes) : refreshes[i].owner # owner

\* Promise.all publishes before every load has settled
AllSettledEarly(r) == TRUE

\* Promise.all resolves only when no load came back empty or failed
AllSettledNonEmpty(r) ==
    \A i \in 1..Len(r.got) : r.got[i] # None /\ r.got[i] # Some(<<>>)

\* Promise.all of line 296 has resolved: every load has settled
AllSettled(r) == \A i \in 1..Len(r.got) : r.got[i] # None

\* line 299: one readNote of a refresh resolves
RefreshLoaded ==
    \E i \in 1..Len(refreshes) : \E k \in 1..Len(refreshes[i].got) :
        /\ refreshes[i].got[k] = None
        /\ refreshes' = [refreshes EXCEPT
               ![i].got[k] = Some(disk[refreshes[i].list[k].path])]
        /\ UNCHANGED <<vaultPath, notes, selectedNote, noteContent, tasks,
                       tasksAll, allTags, section, backlinksIndex, saveTimer,
                       isInitialLoad, isRefreshing, disk, refreshTimers, ld,
                       opens, tg, chains, sv, used, dropped, armedAt>>
        /\ UNCHANGED exceptApp

\* lines 304-307: one readNote of a refresh rejects and its content is ''
RefreshLoadFailed ==
    \E i \in 1..Len(refreshes) : \E k \in 1..Len(refreshes[i].got) :
        /\ refreshes[i].got[k] = None
        /\ used.faults < MaxFaults
        /\ used' = [used EXCEPT !.faults = @ + 1]
        /\ refreshes' = [refreshes EXCEPT ![i].got[k] = Some(<<>>)]
        /\ UNCHANGED <<vaultPath, notes, selectedNote, noteContent, tasks,
                       tasksAll, allTags, section, backlinksIndex, saveTimer,
                       isInitialLoad, isRefreshing, disk, refreshTimers, ld,
                       opens, tg, chains, sv, dropped, armedAt>>
        /\ UNCHANGED exceptApp

\* lines 311-370: the continuation after Promise.all; setTasksAll, setAllTags
\* and the finally block
RefreshPublish ==
    \E i \in 1..Len(refreshes) :
        LET r == refreshes[i]
            newTags == TagsOfAll(r.got)
        IN /\ AllSettled(r)
           /\ tasksAll' = Aggregate(r.list, r.got, 1)
           /\ allTags' = IF allTags = newTags THEN allTags ELSE newTags
           /\ isRefreshing' = FALSE
           /\ refreshes' = RemoveAt(refreshes, i)
           /\ UNCHANGED <<vaultPath, notes, selectedNote, noteContent, tasks,
                          section, backlinksIndex, saveTimer, isInitialLoad,
                          disk, refreshTimers, ld, opens, tg, chains, sv, used,
                          dropped, armedAt>>
           /\ UNCHANGED exceptApp

\* lines 236-245: a vault is chosen; loadNotes awaits listNotes
OpenVault ==
    /\ vaultPath = None
    /\ ld = "idle"
    /\ vaultPath' = Some(VaultRoot)
    /\ ld' = "list"
    /\ UNCHANGED <<notes, selectedNote, noteContent, tasks, tasksAll,
                   allTags, section, backlinksIndex, saveTimer,
                   isInitialLoad, isRefreshing, disk, refreshes,
                   refreshTimers, opens, tg, chains, sv, used, dropped, armedAt>>
    /\ UNCHANGED exceptApp

\* what listNotes gives: the tree of the files the vault holds
ListedTree == TreeOf({f \in AllFiles : f.path \in DOMAIN disk})

\* lines 245-247: listNotes resolves; setNotes, and refreshAllTasks is called
LoadNotesListed ==
    /\ ld = "list"
    /\ notes' = ListedTree
    /\ refreshAllTasks(ListedTree, "loadNotes")
    /\ ld' = "refresh"
    /\ UNCHANGED <<vaultPath, selectedNote, noteContent, tasks, tasksAll,
                   allTags, section, backlinksIndex, saveTimer,
                   isInitialLoad, disk, refreshTimers, opens, tg, chains, sv,
                   used, armedAt>>
    /\ UNCHANGED exceptApp

\* lines 247-251: the awaited refresh returns; buildBacklinksIndex is called
LoadNotesRefreshed ==
    /\ ld = "refresh"
    /\ RefreshReturned("loadNotes")
    /\ ld' = "build"
    /\ UNCHANGED <<vaultPath, notes, selectedNote, noteContent, tasks,
                   tasksAll, allTags, section, backlinksIndex, saveTimer,
                   isInitialLoad, isRefreshing, disk, refreshes,
                   refreshTimers, opens, tg, chains, sv, used, dropped, armedAt>>
    /\ UNCHANGED exceptApp

\* lines 251-261 and 373-386: the index is published and openNote(list[0])
\* runs up to its await.  This openNote belongs to the render in which the
\* vault was chosen, so the vaultPath it sees at line 393 is null.  When
\* list[0] is a folder openNote returns at line 374.
LoadNotesBuilt ==
    /\ ld = "build"
    /\ Len(opens) < MaxOpening
    /\ backlinksIndex' = buildBacklinksIndex(notes, ReadAll)
    /\ IF notes[1].type = "folder"
       THEN UNCHANGED <<section, saveTimer, selectedNote, opens>>
       ELSE /\ section' = "notes"
            /\ saveTimer' = FALSE
            /\ selectedNote' = Some(notes[1])
            /\ opens' = Append(opens, [note |-> notes[1], vault |-> None, pc |-> "read"])
    /\ ld' = "done"
    /\ UNCHANGED <<vaultPath, notes, noteContent, tasks, tasksAll, allTags,
                   isInitialLoad, isRefreshing, disk, refreshes,
                   refreshTimers, tg, chains, sv, used, dropped, armedAt>>
    /\ UNCHANGED exceptApp

\* lines 373-386: the user opens a file note of the tree
OpenNote ==
    \E n \in Range(flattenNotes(notes)) :
        /\ vaultPath # None
        /\ used.opens < MaxOpens /\ MayInput
        /\ Len(opens) < MaxOpening - (IF ld = "done" THEN 0 ELSE 1)
        /\ section' = "notes"
        /\ saveTimer' = FALSE
        /\ selectedNote' = Some(n)
        /\ opens' = Append(opens, [note |-> n, vault |-> vaultPath, pc |-> "read"])
        /\ used' = [used EXCEPT !.opens = @ + 1]
        /\ UNCHANGED <<vaultPath, notes, noteContent, tasks, tasksAll,
                       allTags, backlinksIndex, isInitialLoad, isRefreshing,
                       disk, refreshes, refreshTimers, ld, tg, chains, sv,
                       dropped, armedAt>>
        /\ UNCHANGED exceptApp

\* lines 386-393: readNote resolves; the editor is given the content
OpenNoteRead ==
    \E i \in 1..Len(opens) :
        LET o == opens[i]
            content == disk[o.note.path]
        IN /\ o.pc = "read"
           /\ noteContent' = content
           /\ tasks' = parseTasksFromMarkdown(content)
           /\ isInitialLoad' = TRUE
           /\ opens' = IF o.vault # None /\ Len(notes) > 0
                       THEN [opens EXCEPT ![i].pc = "build"]
                       ELSE RemoveAt(opens, i)
           /\ UNCHANGED <<vaultPath, notes, selectedNote, tasksAll, allTags,
                          section, backlinksIndex, saveTimer, isRefreshing,
                          disk, refreshes, refreshTimers, ld, tg, chains, sv,
                          used, dropped, armedAt>>
           /\ UNCHANGED exceptApp

\* lines 394-399: the index built on opening a note is published
OpenNoteBuilt ==
    \E i \in 1..Len(opens) :
        /\ opens[i].pc = "build"
        /\ backlinksIndex' = buildBacklinksIndex(notes, ReadAll)
        /\ opens' = RemoveAt(opens, i)
        /\ UNCHANGED <<vaultPath, notes, selectedNote, noteContent, tasks,
                       tasksAll, allTags, section, saveTimer, isInitialLoad,
                       isRefreshing, disk, refreshes, refreshTimers, ld, tg,
                       chains, sv, used, dropped, armedAt>>
        /\ UNCHANGED exceptApp

\* handleNoteContentChange(next), lines 663-735, up to arming the timeout
handleNoteContentChange(next) ==
    /\ section = "notes"
    /\ selectedNote # None
    /\ used.edits < MaxEdits /\ MayInput
    /\ noteContent' = next
    /\ tasks' = parseTasksFromMarkdown(next)
    /\ IF isInitialLoad
       THEN /\ isInitialLoad' = FALSE
            /\ UNCHANGED <<saveTimer, armedAt>>
       ELSE /\ saveTimer' = (selectedNote # None)
            /\ armedAt' = used.edits + 1
            /\ UNCHANGED isInitialLoad
    /\ used' = [used EXCEPT !.edits = @ + 1]
    /\ UNCHANGED <<vaultPath, notes, selectedNote, tasksAll, allTags,
                   section, backlinksIndex, isRefreshing, disk,
                   refreshes, refreshTimers, ld, opens, tg, chains, sv,
                   dropped>>
    /\ UNCHANGED exceptApp

\* the editor (line 1196) reports a change of the content by the user
Edit == \E next \in EditsOf(noteContent) : handleNoteContentChange(next)

\* what typing a wikilink makes of the content: a line "[[target]]" at the end
WithLink(c, target) ==
    IF Len(c) = 0 THEN Link(target) ELSE c \o <<"\n">> \o Link(target)

\* the editor reports that the user typed a wikilink to t or to b
TypeLink ==
    \E target \in {<<"t">>, <<"b">>} :
        handleNoteContentChange(WithLink(noteContent, target))

\* a callback that goes on to the rebuild without its write having resolved
AutosaveChainUnwritten(note, content) ==
    [note |-> note, content |-> content, pc |-> "build"]

\* lines 683-690: the callback calls writeNote(note.path, content) and what
\* follows hangs on the promise it returns
AutosaveChain(note, content) ==
    [note |-> note, content |-> content, pc |-> "write"]

\* lines 681-689: the autosave timeout fires and writeNote is called with what
\* the refs hold now
AutosaveFire ==
    /\ saveTimer
    /\ Len(chains) < MaxChains
    /\ saveTimer' = FALSE
    /\ chains' = IF selectedNote # None /\ vaultPath # None
                 THEN Append(chains, AutosaveChain(Get(selectedNote), noteContent))
                 ELSE chains
    /\ UNCHANGED <<vaultPath, notes, selectedNote, noteContent, tasks,
                   tasksAll, allTags, section, backlinksIndex, isInitialLoad,
                   isRefreshing, disk, refreshes, refreshTimers, ld, opens,
                   tg, sv, used, dropped, armedAt>>
    /\ UNCHANGED exceptApp

\* lines 689-702: the autosave write reaches the file
AutosaveWritten ==
    \E i \in 1..Len(chains) :
        LET c == chains[i]
        IN /\ c.pc = "write"
           /\ disk' = [disk EXCEPT ![c.note.path] = c.content]
           /\ chains' = [chains EXCEPT ![i].pc = "build"]
           /\ UNCHANGED <<vaultPath, notes, selectedNote, noteContent, tasks,
                          tasksAll, allTags, section, backlinksIndex,
                          saveTimer, isInitialLoad, isRefreshing, refreshes,
                          refreshTimers, ld, opens, tg, sv, used, dropped, armedAt>>
           /\ UNCHANGED exceptApp

\* a rejected write that falls through to the rebuild and the refresh timeout
AfterFailedWriteBuilds(chs, i) == [chs EXCEPT ![i].pc = "build"]

\* lines 728-731: the catch of a rejected write logs and resets the status;
\* nothing of the then-branch (lines 690-727) runs, so the cycle is over
AfterFailedWrite(chs, i) == RemoveAt(chs, i)

\* lines 689, 728-731: the autosave write fails
AutosaveWriteFailed ==
    \E i \in 1..Len(chains) :
        /\ chains[i].pc = "write"
        /\ used.faults < MaxFaults
        /\ used' = [used EXCEPT !.faults = @ + 1]
        /\ chains' = AfterFailedWrite(chains, i)
        /\ UNCHANGED <<vaultPath, notes, selectedNote, noteContent, tasks,
                       tasksAll, allTags, section, backlinksIndex, saveTimer,
                       isInitialLoad, isRefreshing, disk, refreshes,
                       refreshTimers, ld, opens, tg, sv, dropped, armedAt>>
        /\ UNCHANGED exceptApp

\* lines 698-726: the index built after the autosave is published and the
\* timeout that refreshes the tasks is armed
AutosaveBuilt ==
    \E i \in 1..Len(chains) :
        LET c == chains[i]
        IN /\ c.pc = "build"
           /\ backlinksIndex' = IF Len(notes) > 0
                                THEN buildBacklinksIndex(notes, ReadAllBut(c.note.path, c.content))
                                ELSE backlinksIndex
           /\ refreshTimers' = [refreshTimers EXCEPT !.autosave = @ + 1]
           /\ chains' = RemoveAt(chains, i)
           /\ UNCHANGED <<vaultPath, notes, selectedNote, noteContent, tasks,
                          tasksAll, allTags, section, saveTimer,
                          isInitialLoad, isRefreshing, disk, refreshes, ld,
                          opens, tg, sv, used, dropped, armedAt>>
           /\ UNCHANGED exceptApp

\* lines 719-726: the timeout armed by an autosave fires
AutosaveRefreshTimer ==
    /\ refreshTimers.autosave > 0
    /\ refreshTimers' = [refreshTimers EXCEPT !.autosave = @ - 1]
    /\ IF Len(notes) > 0 /\ ~isRefreshing
       THEN refreshAllTasks(notes, "timer")
       ELSE UNCHANGED <<isRefreshing, refreshes, dropped>>
    /\ UNCHANGED <<vaultPath, notes, selectedNote, noteContent, tasks,
                   tasksAll, allTags, section, backlinksIndex, saveTimer,
                   isInitialLoad, disk, ld, opens, tg, chains, sv, used, armedAt>>
    /\ UNCHANGED exceptApp

\* lines 603-611: the Save button; saveNote awaits writeNote
SaveNote ==
    /\ section = "notes"
    /\ selectedNote # None
    /\ sv.pc = "idle"
    /\ used.saves < MaxSaves /\ MayInput
    /\ sv' = [pc |-> "write", note |-> selectedNote, content |-> noteContent]
    /\ used' = [used EXCEPT !.saves = @ + 1]
    /\ UNCHANGED <<vaultPath, notes, selectedNote, noteContent, tasks,
                   tasksAll, allTags, section, backlinksIndex, saveTimer,
                   isInitialLoad, isRefreshing, disk, refreshes,
                   refreshTimers, ld, opens, tg, chains, dropped, armedAt>>
    /\ UNCHANGED exceptApp

\* lines 611-617: the write of saveNote reaches the file
SaveNoteWritten ==
    /\ sv.pc = "write"
    /\ disk' = [disk EXCEPT ![Get(sv.note).path] = sv.content]
    /\ tasks' = parseTasksFromMarkdown(sv.content)
    /\ sv' = [sv EXCEPT !.pc = "build"]
    /\ UNCHANGED <<vaultPath, notes, selectedNote, noteContent, tasksAll,
                   allTags, section, backlinksIndex, saveTimer,
                   isInitialLoad, isRefreshing, refreshes, refreshTimers, ld,
                   opens, tg, chains, used, dropped, armedAt>>
    /\ UNCHANGED exceptApp

\* lines 654-659: the write of saveNote fails
SaveNoteWriteFailed ==
    /\ sv.pc = "write"
    /\ used.faults < MaxFaults
    /\ used' = [used EXCEPT !.faults = @ + 1]
    /\ sv' = NoSave
    /\ UNCHANGED <<vaultPath, notes, selectedNote, noteContent, tasks,
                   tasksAll, allTags, section, backlinksIndex, saveTimer,
                   isInitialLoad, isRefreshing, disk, refreshes,
                   refreshTimers, ld, opens, tg, chains, dropped, armedAt>>
    /\ UNCHANGED exceptApp

\* lines 615-640: the index built after the save is published and the
\* timeout that refreshes the tasks is armed
SaveNoteBuilt ==
    /\ sv.pc = "build"
    /\ backlinksIndex' = IF Len(notes) > 0
                         THEN buildBacklinksIndex(notes, ReadAllBut(Get(sv.note).path, sv.content))
                         ELSE backlinksIndex
    /\ refreshTimers' = IF ~isRefreshing
                        THEN [refreshTimers EXCEPT !.save = @ + 1]
                        ELSE refreshTimers
    /\ sv' = NoSave
    /\ UNCHANGED <<vaultPath, notes, selectedNote, noteContent, tasks,
                   tasksAll, allTags, section, saveTimer, isInitialLoad,
                   isRefreshing, disk, refreshes, ld, opens, tg, chains,
                   used, dropped, armedAt>>
    /\ UNCHANGED exceptApp

\* lines 637-639: the timeout armed by saveNote fires
SaveRefreshTimer ==
    /\ refreshTimers.save > 0
    /\ refreshTimers' = [refreshTimers EXCEPT !.save = @ - 1]
    /\ refreshAllTasks(notes, "timer")
    /\ UNCHANGED <<vaultPath, notes, selectedNote, noteContent, tasks,
                   tasksAll, allTags, section, backlinksIndex, saveTimer,
                   isInitialLoad, disk, ld, opens, tg, chains, sv, used, armedAt>>
    /\ UNCHANGED exceptApp

\* lines 483-491: a task of a task view is clicked; updateTaskStatusInFile
\* awaits readNote.  selectedNote is the one of the render of the click.
ToggleTask ==
    \E t \in Range(tasksAll) :
        /\ section \in {"dashboard", "tasks"}
        /\ tg.pc = "idle"
        /\ used.toggles < MaxToggles /\ MayInput
        /\ tg' = [pc |-> "read", task |-> t, status |-> NextStatus(t.status),
                  sel |-> selectedNote, updated |-> <<>>]
        /\ used' = [used EXCEPT !.toggles = @ + 1]
        /\ UNCHANGED <<vaultPath, notes, selectedNote, noteContent, tasks,
                       tasksAll, allTags, section, backlinksIndex, saveTimer,
                       isInitialLoad, isRefreshing, disk, refreshes,
                       refreshTimers, ld, opens, chains, sv, dropped, armedAt>>
        /\ UNCHANGED exceptApp

\* lines 491-501: the file is read, the status is replaced and writeNote is
\* called; an empty file or a throw of updateTaskStatus ends the handler
ToggleRead ==
    LET content == disk[Get(tg.task.notePath)]
        r == updateTaskStatus(content, tg.task, tg.status)
    IN /\ tg.pc = "read"
       /\ tg' = IF Len(content) = 0 \/ r.threw
                THEN NoToggle
                ELSE [tg EXCEPT !.pc = "write", !.updated = Get(r.value)]
       /\ UNCHANGED <<vaultPath, notes, selectedNote, noteContent, tasks,
                      tasksAll, allTags, section, backlinksIndex, saveTimer,
                      isInitialLoad, isRefreshing, disk, refreshes,
                      refreshTimers, ld, opens, chains, sv, used, dropped, armedAt>>
       /\ UNCHANGED exceptApp

\* lines 501-505: the write reaches the file and refreshAllTasks is awaited
ToggleWritten ==
    /\ tg.pc = "write"
    /\ disk' = [disk EXCEPT ![Get(tg.task.notePath)] = tg.updated]
    /\ refreshAllTasks(notes, "toggle")
    /\ tg' = [tg EXCEPT !.pc = "refresh"]
    /\ UNCHANGED <<vaultPath, notes, selectedNote, noteContent, tasks,
                   tasksAll, allTags, section, backlinksIndex, saveTimer,
                   isInitialLoad, refreshTimers, ld, opens, chains, sv, used, armedAt>>
    /\ UNCHANGED exceptApp

\* lines 513-516: the write fails
ToggleWriteFailed ==
    /\ tg.pc = "write"
    /\ used.faults < MaxFaults
    /\ used' = [used EXCEPT !.faults = @ + 1]
    /\ tg' = NoToggle
    /\ UNCHANGED <<vaultPath, notes, selectedNote, noteContent, tasks,
                   tasksAll, allTags, section, backlinksIndex, saveTimer,
                   isInitialLoad, isRefreshing, disk, refreshes,
                   refreshTimers, ld, opens, chains, sv, dropped, armedAt>>
    /\ UNCHANGED exceptApp

\* lines 505-512: the awaited refresh returns; the editor is given the
\* updated content when the note of the task was the selected one
ToggleFinish ==
    /\ tg.pc = "refresh"
    /\ RefreshReturned("toggle")
    /\ IF tg.sel # None /\ Get(tg.sel).path = Get(tg.task.notePath)
       THEN /\ noteContent' = tg.updated
            /\ tasks' = parseTasksFromMarkdown(tg.updated)
       ELSE UNCHANGED <<noteContent, tasks>>
    /\ tg' = NoToggle
    /\ UNCHANGED <<vaultPath, notes, selectedNote, tasksAll, allTags,
                   section, backlinksIndex, saveTimer, isInitialLoad,
                   isRefreshing, disk, refreshes, refreshTimers, ld, opens,
                   chains, sv, used, dropped, armedAt>>
    /\ UNCHANGED exceptApp

\* lines 798 and 229-234: another section is chosen; the effect refreshes the
\* tasks on entering the Tasks section
SwitchSection ==
    \E s \in {"dashboard", "notes", "tasks"} :
        /\ vaultPath # None
        /\ s # section
        /\ used.clicks < MaxClicks /\ MayInput
        /\ section' = s
        /\ used' = [used EXCEPT !.clicks = @ + 1]
        /\ IF s = "tasks" /\ Len(notes) > 0 /\ ~isRefreshing
           THEN refreshAllTasks(notes, "effect")
           ELSE UNCHANGED <<isRefreshing, refreshes, dropped>>
        /\ UNCHANGED <<vaultPath, notes, selectedNote, noteContent, tasks,
                       tasksAll, allTags, backlinksIndex, saveTimer,
                       isInitialLoad, disk, refreshTimers, ld, opens, tg,
                       chains, sv, armedAt>>
        /\ UNCHANGED exceptApp

\* lines 1228-1232: the Refresh button of the Tasks section
RefreshClick ==
    /\ section = "tasks"
    /\ vaultPath # None
    /\ Len(notes) > 0
    /\ used.clicks < MaxClicks /\ MayInput
    /\ used' = [used EXCEPT !.clicks = @ + 1]
    /\ refreshAllTasks(notes, "button")
    /\ UNCHANGED <<vaultPath, notes, selectedNote, noteContent, tasks,
                   tasksAll, allTags, section, backlinksIndex, saveTimer,
                   isInitialLoad, disk, refreshTimers, ld, opens, tg, chains,
                   sv, armedAt>>
    /\ UNCHANGED exceptApp

AppInit ==
    /\ TaskIdle
    /\ BlIdle
    /\ TagIdle
    /\ AppConstructed
    /\ disk \in VaultDisks

AppNext ==
    \/ OpenVault
    \/ LoadNotesListed
    \/ LoadNotesRefreshed
    \/ LoadNotesBuilt
    \/ OpenNote
    \/ OpenNoteRead
    \/ OpenNoteBuilt
    \/ Edit
    \/ AutosaveFire
    \/ AutosaveWritten
    \/ AutosaveWriteFailed
    \/ AutosaveBuilt
    \/ AutosaveRefreshTimer
    \/ SaveNote
    \/ SaveNoteWritten
    \/ SaveNoteWriteFailed
    \/ SaveNoteBuilt
    \/ SaveRefreshTimer
    \/ ToggleTask
    \/ ToggleRead
    \/ ToggleWritten
    \/ ToggleWriteFailed
    \/ ToggleFinish
    \/ SwitchSection
    \/ RefreshClick
    \/ RefreshLoaded
    \/ RefreshLoadFailed
    \/ RefreshPublish

AppSpec == AppInit /\ [][AppNext]_vars

-----------------------------------------------------------------------------
(* RefreshSpec: a vault with a folder is opened and its tasks are refreshed, *)
(* on loading and from the Tasks section; nothing is edited.                 *)

\* the contents a file of that vault may hold
RefreshDocs == {<<>>, LineTodo, DocTasks, LineMeta}

\* the vault holds d/t.md, b.md and t.md
RefreshDisks == [PathsOf(TreeOf({FileDT, FileB, FileT})) -> RefreshDocs]

RefreshInit ==
    /\ TaskIdle
    /\ BlIdle
    /\ TagIdle
    /\ AppConstructed
    /\ disk \in RefreshDisks

RefreshNext ==
    \/ OpenVault
    \/ LoadNotesListed
    \/ LoadNotesRefreshed
    \/ LoadNotesBuilt
    \/ SwitchSection
    \/ RefreshClick
    \/ RefreshLoaded
    \/ RefreshLoadFailed
    \/ RefreshPublish

RefreshSpec == RefreshInit /\ [][RefreshNext]_vars

\* RefreshPublish can take a step exactly when the loads of some invocation
\* have all settled
PublishEnabled == \E i \in 1..Len(refreshes) : AllSettled(refreshes[i])

\* every readNote a refresh issued settles, and the continuation after
\* Promise.all runs once it may: the event loop starves no callback.  The
\* last conjunct is WF_vars(RefreshPublish) with its enabling condition
\* written as the state predicate PublishEnabled.
RefreshLiveSpec ==
    /\ RefreshInit
    /\ [][RefreshNext]_vars
    /\ WF_vars(RefreshLoaded)
    /\ ([]<>(~PublishEnabled) \/ []<><<RefreshPublish>>_vars)

-----------------------------------------------------------------------------
(* TagSpec: a caller hands a Markdown text to extractHashtags and then one  *)
(* of its lines to extractHashtagsFromLine.                                 *)

\* the largest number of lines of a text of the tag model
MaxTagLines == 4

\* "~#nottag~ and #realtag": a hashtag inside a code span, one outside
TagCodeSpan == <<Backtick, "#","n","o","t","t","a","g", Backtick>>
               \o <<" ","a","n","d"," ","#","r","e","a","l","t","a","g">>
\* "~~~": a fence line
TagFenceLine == Fence
\* "  ~~~ts #f": an indented fence line with an info string and a hashtag
TagFenceLang == <<" ", " ">> \o Fence \o <<"t","s"," ","#","f">>
\* "#tag"
TagHash == <<"#","t","a","g">>
\* "~[[x]]~ [[My Tag]]": a wikilink inside a code span, one outside
TagWikiCode == <<Backtick, "[","[","x","]","]", Backtick, " ">>
               \o <<"[","[","M","y"," ","T","a","g","]","]">>
\* "- [ ] todo item #high": a task line whose only # token is a priority
TagTaskHigh == <<"-">> \o Sp \o Box(" ") \o Sp
               \o <<"t","o","d","o"," ","i","t","e","m"," ","#","h","i","g","h">>
\* "~#a #b": a grave accent that nothing closes
TagOpenTick == <<Backtick, "#","a"," ","#","b">>
\* "~x~#mid~#y~": a hashtag between two code spans, one inside the second
TagBetween == <<Backtick, "x", Backtick, "#","m","i","d", Backtick, "#","y", Backtick>>

\* "[[My Tag|alias]]": a wikilink with an alias
TagAlias == <<"[","[","M","y"," ","T","a","g","|","a","l","i","a","s","]","]">>

TagLines == { TagCodeSpan, TagFenceLine, TagFenceLang, TagHash, TagWikiCode,
              TagTaskHigh, TagOpenTick, TagBetween, TagAlias }

RECURSIVE TagLineSeqs(_)
TagLineSeqs(n) ==
    IF n = 0 THEN {<<>>}
    ELSE {<<l>> \o ls : l \in TagLines, ls \in TagLineSeqs(n - 1)}

\* every text of one to MaxTagLines lines of the palette
TagTexts == UNION { {Join(ls, "\n") : ls \in TagLineSeqs(n)} : n \in 1..MaxTagLines }

TagInit ==
    /\ TaskIdle
    /\ BlIdle
    /\ AppIdle
    /\ tpText \in TagTexts
    /\ tpTags = <<>>
    /\ tpLine = 0
    /\ tpLineTags = <<>>
    /\ tpPc = "start"

TpExtract ==
    /\ tpPc = "start"
    /\ tpTags' = extractHashtags(tpText)
    /\ tpPc' = "extracted"
    /\ UNCHANGED <<tpText, tpLine, tpLineTags>>
    /\ UNCHANGED exceptTag

TpScanLine ==
    /\ tpPc = "extracted"
    /\ \E i \in 1..Len(Split(tpText, "\n")) :
          /\ tpLine' = i
          /\ tpLineTags' = extractHashtagsFromLine(Split(tpText, "\n")[i])
    /\ tpPc' = "scanned"
    /\ UNCHANGED <<tpText, tpTags>>
    /\ UNCHANGED exceptTag

TagNext == TpExtract \/ TpScanLine

TagSpec == TagInit /\ [][TagNext]_vars

-----------------------------------------------------------------------------
(* Properties of lib/taskParser, checked under TaskSpec *)

\* the task handed to updateTaskStatus was parsed from the content it is applied to
TkFresh == tkArg \in Range(parseTasksFromMarkdown(tkContent))

TkLines == Split(tkContent, "\n")

\* the task of the second parse that sits on the line of the task written back
TkSameLine == {r \in Range(tkReparsed) : r.lineNumber = tkArg.lineNumber}

\* 1-based position of the status character in the trimmed line of the task
TkMarkOffset ==
    LET line == Get(tkArg.originalLine)
    IN TaskBracketPos(line) + 1 - (SkipWS(line, 1) - 1)

\* C4 as stated: after a status S is written back for a task of the content,
\* the second parse has a task on the same line with status S and with the
\* same id, title, owner, project, due, priority and lineNumber.
C4_RoundTripWithId ==
    (tkPc = "done" /\ TkFresh) =>
        \E r \in TkSameLine :
            /\ r.status = tkNew
            /\ r.id = tkArg.id
            /\ r.title = tkArg.title
            /\ r.owner = tkArg.owner
            /\ r.project = tkArg.project
            /\ r.due = tkArg.due
            /\ r.priority = tkArg.priority

\* C4 amended: the second parse has a task on the same line with status S and
\* the same title, owner, project, due, priority and lineNumber; its id is the
\* same exactly when the written mark equals the old one or the status
\* character lies beyond the first 20 characters of the trimmed line.
C4_RoundTrip ==
    (tkPc = "done" /\ TkFresh) =>
        /\ Cardinality(TkSameLine) = 1
        /\ \A r \in TkSameLine :
            /\ r.status = tkNew
            /\ r.title = tkArg.title
            /\ r.owner = tkArg.owner
            /\ r.project = tkArg.project
            /\ r.due = tkArg.due
            /\ r.priority = tkArg.priority
            /\ (r.id = tkArg.id) <=>
                  \/ Get(tkArg.originalLine)[TaskBracketPos(Get(tkArg.originalLine)) + 1]
                        = statusToMark(tkNew)
                  \/ TkMarkOffset > 20

\* a task with metadata got a different status and was parsed again
C4_Witness ==
    /\ tkPc = "done"
    /\ TkFresh
    /\ tkNew # tkArg.status
    /\ IsSome(tkArg.due)
    /\ IsSome(tkArg.project)

\* C5 as stated: when the line now at task.lineNumber is not the line the task
\* was parsed from, updateTaskStatus fails and leaves the content alone.
C5_StaleRejected ==
    ( /\ tkPc \in {"updated", "done"}
      /\ IsSome(tkArg.lineNumber)
      /\ IsSome(tkArg.originalLine)
      /\ Get(tkArg.lineNumber) >= 0
      /\ Get(tkArg.lineNumber) < Len(TkLines)
      /\ TkLines[Get(tkArg.lineNumber) + 1] # Get(tkArg.originalLine) )
    => tkResult = Threw

\* C6: updateTaskStatus throws and returns no content when lineNumber is
\* undefined, originalLine is absent, or lineNumber is negative or not less
\* than the number of lines of the current content.
C6_RejectsBadReference ==
    ( /\ tkPc \in {"updated", "done"}
      /\ \/ tkArg.lineNumber = None
         \/ tkArg.originalLine = None
         \/ (IsSome(tkArg.lineNumber) /\ Get(tkArg.lineNumber) < 0)
         \/ (IsSome(tkArg.lineNumber) /\ Get(tkArg.lineNumber) >= Len(TkLines)) )
    => (tkResult.threw /\ tkResult.value = None)

\* the task line has gone out of bounds because the content shrank
C6_WitnessShrunk ==
    /\ tkPc = "updated"
    /\ tkResult.threw
    /\ IsSome(tkArg.originalLine)
    /\ IsSome(tkArg.lineNumber)
    /\ Get(tkArg.lineNumber) >= Len(TkLines)

\* C7: a successful write-back for a task of the same content keeps the number
\* of lines, keeps every other line, and changes on the task's line at most the
\* status character inside the checkbox of the list item.
C7_OnlyMarkChanges ==
    ( /\ tkPc \in {"updated", "done"}
      /\ TkFresh
      /\ ~tkResult.threw )
    => LET new == Split(Get(tkResult.value), "\n")
           ln == Get(tkArg.lineNumber) + 1
           mark == TaskBracketPos(TkLines[ln]) + 1
       IN /\ Len(new) = Len(TkLines)
          /\ \A i \in 1..Len(new) : i # ln => new[i] = TkLines[i]
          /\ Len(new[ln]) = Len(TkLines[ln])
          /\ \A k \in 1..Len(new[ln]) : k # mark => new[ln][k] = TkLines[ln][k]
          /\ new[ln][mark] = statusToMark(tkNew)

\* the status of a task whose title holds a second bracket group was changed,
\* in a content of more than one line
C7_Witness ==
    /\ tkPc = "updated"
    /\ TkFresh
    /\ ~tkResult.threw
    /\ Get(tkArg.originalLine) = LineTwoBoxes
    /\ tkNew = "todo"
    /\ Len(TkLines) > 1

-----------------------------------------------------------------------------
(* Properties of lib/backlinks, checked under BacklinkSpec *)

BlFiles == Range(flattenNotes(blNotes))
BlTitleMap == noteTitleMapOf(flattenNotes(blNotes), <<>>)
BlPathMap == notePathMapOf(flattenNotes(blNotes), <<>>)
BlNoLoadFails == \A q \in DOMAIN blLoad : blLoad[q] # None
BlContentOf(n) == IF blLoad[n.path] = None THEN <<>> ELSE Get(blLoad[n.path])
BlIds(q) == {q[i].id : i \in 1..Len(q)}

\* the content of a holds a link that the build resolves to b
BlLinksTo(a, b) ==
    \E l \in Range(extractLinks(BlContentOf(a))) :
        LET r == ResolveLink(l, BlTitleMap, BlPathMap)
        IN r.found /\ r.note = b

\* ... by a path, or by a title that only one note has
BlLinksClearlyTo(a, b) ==
    \E l \in Range(extractLinks(BlContentOf(a))) :
        LET r == ResolveLink(l, BlTitleMap, BlPathMap)
        IN /\ r.found
           /\ r.note = b
           /\ \/ ResolveByPath(normalizePath(l), BlPathMap).found
              \/ ResolveBySuffix(normalizePath(l), BlPathMap).found
              \/ Len(MapGetOrEmpty(BlTitleMap, normalizePath(l))) = 1

\* C1: for every file note N of the tree, getBacklinks(N, index) never
\* contains N itself.
C1_NoSelfBacklink ==
    (blPc = "queried" /\ blFor # None) => Get(blFor).id \notin BlIds(blBacklinks)

\* C2: if A's content holds a link that resolves to B (by a path or an
\* unambiguous title), getBacklinks(B) includes A, and getBacklinks(A) does not
\* include B unless B's content holds a link that resolves to A.
C2_Symmetry ==
    (blPc = "built" /\ BlNoLoadFails) =>
        \A a \in BlFiles, b \in BlFiles :
            (a # b /\ BlLinksClearlyTo(a, b)) =>
                /\ a.id \in BlIds(getBacklinks(Some(b), blIndex))
                /\ b.id \in BlIds(getBacklinks(Some(a), blIndex)) => BlLinksTo(b, a)

\* the first half of C2 alone
C2_Forward ==
    (blPc = "built" /\ BlNoLoadFails) =>
        \A a \in BlFiles, b \in BlFiles :
            (a # b /\ BlLinksClearlyTo(a, b)) =>
                a.id \in BlIds(getBacklinks(Some(b), blIndex))

-----------------------------------------------------------------------------
(* Properties of the orchestration in App.tsx, checked under AppSpec *)

\* the loads of an invocation of refreshAllTasks have all settled
RefreshSettled(r) == \A k \in 1..Len(r.got) : r.got[k] # None

\* C3: at most one invocation of refreshAllTasks is between setting the
\* in-flight flag and clearing it, the flag is set exactly while one is, and
\* a call that finds the flag set returns at once: it starts no load, leaves
\* the flag, the task collection and the tag set as they are, and arms no
\* timeout that would run it later.
C3_MutualExclusion ==
    /\ [](Len(refreshes) <= 1 /\ (isRefreshing <=> Len(refreshes) = 1))
    /\ [][dropped' # dropped =>
            /\ UNCHANGED <<refreshes, isRefreshing, tasksAll, allTags>>
            /\ refreshTimers'.autosave <= refreshTimers.autosave
            /\ refreshTimers'.save <= refreshTimers.save]_vars

\* a call of refreshAllTasks was dropped and the invocation that made it
\* return is still loading
C3_Witness ==
    /\ dropped = 1
    /\ Len(refreshes) = 1
    /\ ~RefreshSettled(refreshes[1])

\* the lines the user types in the editor (EditsOf)
TypedLines == {<<"n">>, <<"#", "k">>}

\* C8: when updateTaskStatusInFile completes on the note the editor shows
\* (and no openNote is pending), every line the user typed that the editor
\* held is still in the editor:
\* edits not yet written to the file survive the toggle.
C8_ToggleKeepsEdits ==
    [][(/\ tg.pc = "refresh"
        /\ tg'.pc = "idle"
        /\ opens = <<>>
        /\ selectedNote # None
        /\ tg.sel = selectedNote
        /\ Get(selectedNote).path = Get(tg.task.notePath))
       => \A l \in TypedLines :
              l \in Range(Split(noteContent, "\n"))
                  => l \in Range(Split(noteContent', "\n"))]_vars

\* C9: the task collection and the tag set change only in the step in which
\* an invocation of refreshAllTasks whose loads have all settled ends, and
\* they become the tasks and the tags of all the contents it loaded.
C9_NoPartialPublish ==
    [][(tasksAll' # tasksAll \/ allTags' # allTags) =>
          \E i \in 1..Len(refreshes) :
              /\ RefreshSettled(refreshes[i])
              /\ refreshes' = RemoveAt(refreshes, i)
              /\ tasksAll' = Aggregate(refreshes[i].list, refreshes[i].got, 1)
              /\ allTags' = TagsOfAll(refreshes[i].got)]_vars

\* a refresh has loaded some notes and not others, and the tasks of the part
\* it has loaded differ from the published collection
C9_Witness ==
    \E i \in 1..Len(refreshes) :
        /\ \E k \in 1..Len(refreshes[i].got) : refreshes[i].got[k] # None
        /\ ~RefreshSettled(refreshes[i])
        /\ Aggregate(refreshes[i].list, refreshes[i].got, 1) # tasksAll

\* C10: every edit of the content of the selected note leaves an autosave
\* timeout pending.
C10_EditSchedulesAutosave ==
    [][used'.edits # used.edits => saveTimer']_vars

\* C11: an autosave timeout that fires was armed by the latest edit, so no
\* edit has occurred since it was armed, and the write it issues carries the
\* content the editor holds when it fires.
C11_Debounce ==
    [][(saveTimer /\ ~saveTimer' /\ Len(chains') = Len(chains) + 1)
       => /\ armedAt = used.edits
          /\ chains'[Len(chains')].content = noteContent]_vars

\* the vault has been loaded and nothing is running or pending: no refresh,
\* no timeout, no read, write or index build
Quiescent ==
    /\ ld = "done"
    /\ refreshes = <<>>
    /\ ~isRefreshing
    /\ ~saveTimer
    /\ refreshTimers = NoTimers
    /\ chains = <<>>
    /\ opens = <<>>
    /\ sv.pc = "idle"
    /\ tg.pc = "idle"

\* what a refresh that reads every file note as it is now would publish
TasksOnDisk ==
    LET list == flattenNotes(notes)
    IN Aggregate(list, [i \in 1..Len(list) |-> Some(disk[list[i].path])], 1)

\* C12: when the system is quiescent and no read or write has failed, the
\* vault-wide task collection is the aggregation of the tasks parsed from
\* the content each file note has on disk.
C12_ConsistentWhenQuiescent ==
    (Quiescent /\ used.faults = 0) => tasksAll = TasksOnDisk

\* the loads of a refresh that failed or gave an empty content
FailedLoads(r) == {k \in 1..Len(r.got) : r.got[k] = Some(<<>>)}

\* the tasks of the notes of a refresh whose load gave a content, in order,
\* each with the path of its note
RECURSIVE TasksOfLoaded(_, _)
TasksOfLoaded(r, k) ==
    IF k > Len(r.got) THEN <<>>
    ELSE (IF k \in FailedLoads(r) THEN <<>>
          ELSE LET ts == parseTasksFromMarkdown(Get(r.got[k]))
               IN [j \in 1..Len(ts) |->
                      [ts[j] EXCEPT !.notePath = Some(r.list[k].path),
                                    !.project = IF @ = None
                                                THEN Some(r.list[k].title)
                                                ELSE @]])
         \o TasksOfLoaded(r, k + 1)

\* C13: a load of a refresh that fails leaves the refresh running, and when
\* the refresh ends it clears the in-flight flag and publishes exactly the
\* tasks and the tags of the notes whose load gave a content: no task and no
\* tag for a note whose load failed or was empty, nothing lost for the rest.
C13_FailedLoadIsolated ==
    [][/\ (used'.faults # used.faults /\ refreshes' # refreshes)
            => Len(refreshes') = Len(refreshes)
       /\ \A i \in 1..Len(refreshes) :
            (RefreshSettled(refreshes[i]) /\ refreshes' = RemoveAt(refreshes, i))
            => LET r == refreshes[i]
               IN /\ tasksAll' = TasksOfLoaded(r, 1)
                  /\ \A t \in Range(tasksAll') :
                        \A k \in FailedLoads(r) : t.notePath # Some(r.list[k].path)
                  /\ allTags' = UNION {Range(extractHashtags(Get(r.got[k]))) :
                                         k \in (1..Len(r.got)) \ FailedLoads(r)}
                  /\ ~isRefreshing']_vars

\* a refresh in which the load of t.md failed has published the tasks of
\* b.md: t.md, never opened, still holds its tag, which is not published
C13_Witness ==
    /\ used.faults = 1
    /\ used.opens = 0
    /\ refreshes = <<>>
    /\ tasksAll # <<>>
    /\ <<"w">> \in Range(extractHashtags(disk[FileT.path]))
    /\ <<"w">> \notin allTags

-----------------------------------------------------------------------------
(* Properties of lib/backlinks under failing loads, checked under BacklinkSpec *)

\* the file notes whose content the loader failed to give
BlFailed == {n \in BlFiles : blLoad[n.path] = None}

\* C14: when the loader fails for some notes the build still returns an
\* index; a note whose load failed is in no entry of the index (it has no
\* outgoing link), and every link of a loaded note that resolves to another
\* note, failed or not, makes the loaded note a backlink of that note.
C14_LoadFailureIsolated ==
    (blPc = "built" /\ BlFailed # {}) =>
        /\ \A n \in BlFailed : \A i \in 1..Len(blIndex) :
               n.id \notin BlIds(blIndex[i].value)
        /\ \A a \in BlFiles \ BlFailed, b \in BlFiles :
               (a # b /\ BlLinksTo(a, b)) =>
                   a.id \in BlIds(getBacklinks(Some(b), blIndex))

\* the build has returned although the load of a note failed, and a loaded
\* note that links to the failed note is among its backlinks
C14_Witness ==
    /\ blPc = "built"
    /\ \E n \in BlFailed : \E a \in BlFiles \ BlFailed :
          /\ a # n
          /\ BlLinksTo(a, n)
          /\ a.id \in BlIds(getBacklinks(Some(n), blIndex))

\* ---- Properties of the autosave error path, checked under AppSpec ----

\* a step in which an autosave write is rejected
AutosaveFaultStep == used'.faults = used.faults + 1 /\ chains' # chains

\* C15: when the autosave write fails, the failure ends that cycle: the step
\* publishes no backlink index, arms no refresh timeout, arms no autosave
\* timeout and writes nothing, and the cycle is gone, so no later step of it
\* can rebuild or schedule; a new write is started only by an armed debounce
\* timeout firing, and that timeout is armed only by an edit
C15_FailedAutosaveEndsCycle ==
    [][/\ AutosaveFaultStep =>
            /\ Len(chains') = Len(chains) - 1
            /\ \A k \in 1..Len(chains') : chains'[k] \in Range(chains)
            /\ backlinksIndex' = backlinksIndex
            /\ refreshTimers' = refreshTimers
            /\ refreshes' = refreshes
            /\ saveTimer' = saveTimer
            /\ disk' = disk
       /\ (Len(chains') > Len(chains)) => (saveTimer /\ ~saveTimer')
       /\ (~saveTimer /\ saveTimer') => used'.edits = used.edits + 1]_vars

\* two edits, the second armed the timeout, it fired, its write was rejected:
\* the typed content is in the editor, not on disk, and nothing is pending
C15_Witness ==
    /\ used.edits = 2 /\ used.toggles = 0 /\ used.saves = 0 /\ used.faults = 1
    /\ armedAt = 2 /\ ~saveTimer /\ chains = <<>> /\ opens = <<>>
    /\ selectedNote # None
    /\ disk[Get(selectedNote).path] # noteContent
    /\ refreshTimers = NoTimers

\* ---- Properties of lib/tagParser, checked under TagSpec ----

TpLines == Split(tpText, "\n")

\* line.trim().startsWith of the fence delimiter
IsFenceLine(line) == HasAt(Trim(line), 1, Fence)

\* position p lies inside a code span: the grave accents of a line pair up
\* from the left, so an odd number of them stands before p and one follows
InCodeSpan(line, p) ==
    /\ Cardinality({i \in 1..(p - 1) : line[i] = Backtick}) % 2 = 1
    /\ \E j \in p..Len(line) : line[j] = Backtick

\* the tags of the tokens of a line that start outside every code span
TagsOutsideSpans(line) ==
    LET hs == HashtagMatches(line, 1)
        ws == WikilinkTagMatches(line, 1)
    IN {ToLower(hs[k].name) :
            k \in {k \in 1..Len(hs) : ~InCodeSpan(line, hs[k].index)}}
       \cup
       ({WikilinkTag(ws[k].name) :
            k \in {k \in 1..Len(ws) : ~InCodeSpan(line, ws[k].index)}} \ {<<>>})

Realtag == <<"r","e","a","l","t","a","g">>

\* C16: code-span exclusion.  extractHashtagsFromLine returns the tags of
\* exactly the hashtags and wikilinks of the line that start outside every
\* single-grave-accent code span, and so does extractHashtags for every line
\* of a text without fences: a token inside a span gives no tag, a token
\* outside one on the same line still does.  The line with #nottag in a
\* span and #realtag after it gives exactly the list of realtag.
C16_CodeSpanExclusion ==
    /\ tpPc = "scanned" =>
          Range(tpLineTags) = TagsOutsideSpans(TpLines[tpLine])
    /\ (tpPc \in {"extracted", "scanned"}
            /\ \A i \in 1..Len(TpLines) : ~IsFenceLine(TpLines[i])) =>
          Range(tpTags) = UNION {TagsOutsideSpans(TpLines[i]) : i \in 1..Len(TpLines)}
    /\ (tpPc = "scanned" /\ TpLines[tpLine] = TagCodeSpan) =>
          tpLineTags = <<Realtag>>
    /\ (tpPc \in {"extracted", "scanned"} /\ tpText = TagCodeSpan) =>
          tpTags = <<Realtag>>

C16_Witness ==
    /\ tpPc = "scanned"
    /\ Len(TpLines) = 2
    /\ TpLines[1] = TagWikiCode
    /\ TpLines[tpLine] = TagCodeSpan
    /\ tpLineTags = <<Realtag>>
    /\ tpTags = << <<"m","y","-","t","a","g">>, Realtag >>

\* how many fence lines stand before line i of the text
FencesBefore(i) == Cardinality({k \in 1..(i - 1) : IsFenceLine(TpLines[k])})

\* line i is a fence line or lies between an opening fence line and the
\* fence line that closes it
Enclosed(i) ==
    \/ IsFenceLine(TpLines[i])
    \/ /\ FencesBefore(i) % 2 = 1
       /\ \E k \in (i + 1)..Len(TpLines) : IsFenceLine(TpLines[k])

\* line i is no fence line and every fence opened before it has been closed
Unfenced(i) == ~IsFenceLine(TpLines[i]) /\ FencesBefore(i) % 2 = 0

\* C17: fence exclusion.  Every tag extractHashtags returns comes from a line
\* that is neither a fence line nor between an opening fence and its closing
\* fence, and every tag of a line outside the fences (before the first or
\* after a closing one) is returned.  extractHashtagsFromLine on a line
\* inside a fence returns the tags of that line all the same, so a tag that
\* stands only inside fences is in its result and not in extractHashtags's.
C17_FenceExclusion ==
    /\ tpPc \in {"extracted", "scanned"} =>
          /\ \A t \in Range(tpTags) :
                 \E i \in 1..Len(TpLines) :
                     ~Enclosed(i) /\ t \in TagsOutsideSpans(TpLines[i])
          /\ \A i \in 1..Len(TpLines) :
                 Unfenced(i) => TagsOutsideSpans(TpLines[i]) \subseteq Range(tpTags)
    /\ (tpPc = "scanned" /\ Enclosed(tpLine) /\ ~IsFenceLine(TpLines[tpLine])) =>
          /\ Range(tpLineTags) = TagsOutsideSpans(TpLines[tpLine])
          /\ \A t \in Range(tpLineTags) :
                 (\A i \in 1..Len(TpLines) :
                      ~Enclosed(i) => t \notin TagsOutsideSpans(TpLines[i]))
                 => t \notin Range(tpTags)

\* a fence, #tag inside it, the closing fence, and a line with #realtag after
C17_Witness ==
    /\ tpPc = "scanned"
    /\ TpLines = <<TagFenceLang, TagHash, TagFenceLine, TagCodeSpan>>
    /\ tpLine = 2
    /\ tpLineTags = << <<"t","a","g">> >>
    /\ tpTags = <<Realtag>>

\* C18: extractHashtags on the task line "- [ ] todo item #high", whose only
\* # token is a priority marker, returns the empty list
C18_PriorityIsNoTag ==
    (tpPc \in {"extracted", "scanned"} /\ tpText = TagTaskHigh) => tpTags = <<>>

\* ---- Properties of the task-line shape, checked under TaskSpec ----

\* the first position at or after i that holds no space character
SkipSpaces(s, i) ==
    LET stop == {j \in i..Len(s) : s[j] # " "}
    IN IF stop = {} THEN Len(s) + 1 ELSE MinOf(stop)

\* the shape in words: optional leading whitespace, a marker, one or more
\* spaces, a bracket group with a status character, one or more spaces, and
\* a remainder that is not empty once trimmed
HasTaskShape(line) ==
    LET n == Len(line)
        m == SkipWS(line, 1)
        b == SkipSpaces(line, m + 1)
        r == SkipSpaces(line, b + 3)
    IN /\ m <= n
       /\ line[m] \in {"-", "*", "+"}
       /\ b > m + 1
       /\ b + 2 <= n
       /\ line[b] = "["
       /\ line[b + 1] \in {" ", "x", "X", "/"}
       /\ line[b + 2] = "]"
       /\ r > b + 3
       /\ Trim(SubSeq(line, r, n)) # <<>>

\* the status the shape gives a line
ShapeStatus(line) ==
    LET c == line[SkipSpaces(line, SkipWS(line, 1) + 1) + 1]
    IN IF c \in {"x", "X"} THEN "done" ELSE IF c = "/" THEN "doing" ELSE "todo"

\* C19: parseTasksFromMarkdown yields a task for a line if and only if the
\* line has the task shape, and then with the status of its status
\* character; a line without a space before the bracket or with an empty
\* remainder yields none
C19_TaskIffShape ==
    tkPc = "parsed" =>
        \A idx \in 0..(Len(TkLines) - 1) :
            LET line == TkLines[idx + 1]
                got == {t \in Range(tkTasks) : t.lineNumber = Some(idx)}
            IN /\ (got # {}) <=> HasTaskShape(line)
               /\ \A t \in got : t.status = ShapeStatus(line)

\* ---- Properties of the metadata of a task, checked under MetadataSpec ----

Contains(str, pat) == \E i \in 1..Len(str) : HasAt(str, i, pat)

\* "- [ ] Ship it @ana project:launch due:2025-03-01 #high"
ShipLine == MetaLine(<<TokOwner, TokProject, TokDue, TokPriority>>)

\* what the line of the example parses to
ShipTask ==
    [ id |-> TaskId(0, ShipLine),
      title |-> SubSeq(ShipLine, 7, Len(ShipLine)),
      status |-> "todo",
      owner |-> Some(<<"a","n","a">>),
      due |-> Some(<<"2","0","2","5","-","0","3","-","0","1">>),
      priority |-> Some(<<"h","i","g","h">>),
      project |-> Some(<<"l","a","u","n","c","h">>),
      notePath |-> None,
      lineNumber |-> Some(0),
      originalLine |-> Some(ShipLine) ]

\* C20: metadata independence.  Whatever other tokens the line carries and
\* in whatever order, the owner is ana exactly when @ana is on the line, the
\* project is launch exactly when project:launch is, the due date is
\* 2025-03-01 exactly when due:2025-03-01 is, the priority is high exactly
\* when #high is, and the title is everything after the checkbox, tokens
\* included.  The line of the example parses to the task of the example.
C20_MetadataIndependence ==
    tkPc = "parsed" =>
        /\ Len(tkTasks) = 1
        /\ LET t == tkTasks[1]
           IN /\ t.owner = IF Contains(tkContent, TokOwner)
                           THEN ShipTask.owner ELSE None
              /\ t.project = IF Contains(tkContent, TokProject)
                             THEN ShipTask.project ELSE None
              /\ t.due = IF Contains(tkContent, TokDue)
                         THEN ShipTask.due ELSE None
              /\ t.priority = IF Contains(tkContent, TokPriority)
                              THEN ShipTask.priority ELSE None
              /\ t.title = SubSeq(tkContent, 7, Len(tkContent))
              /\ \A tok \in MetaTokens :
                     Contains(tkContent, tok) => Contains(t.title, tok)
              /\ t.status = "todo"
        /\ tkContent = ShipLine => tkTasks = <<ShipTask>>

C20_Witness ==
    /\ tkPc = "parsed"
    /\ tkContent = ShipLine
    /\ tkTasks = <<ShipTask>>

\* ---- Properties of the autosave cycle, checked under AppSpec ----

\* C21: the order of an autosave cycle.  A callback reaches its rebuild only
\* in the step in which its write lands in the file; the timeout of the task
\* refresh is armed only in the step in which that callback publishes the
\* index it rebuilt, and no refresh starts in that step; the refresh the
\* timeout starts has read no note when it starts, so each of its reads
\* comes after the write.
C21_AutosaveOrder ==
    [][/\ \A c \in Range(chains') :
             c.pc = "build" =>
                 \/ c \in Range(chains)
                 \/ /\ [c EXCEPT !.pc = "write"] \in Range(chains)
                    /\ disk'[c.note.path] = c.content
       /\ refreshTimers'.autosave > refreshTimers.autosave =>
             \E c \in Range(chains) :
                 /\ c.pc = "build"
                 /\ Len(chains') = Len(chains) - 1
                 /\ backlinksIndex' =
                        buildBacklinksIndex(notes, ReadAllBut(c.note.path, c.content))
                 /\ refreshes' = refreshes
       /\ (refreshTimers'.autosave < refreshTimers.autosave
              /\ Len(refreshes') > Len(refreshes)) =>
             \A k \in 1..Len(refreshes'[Len(refreshes')].got) :
                 refreshes'[Len(refreshes')].got[k] = None]_vars

\* the refresh an autosave started is in flight and finds the typed content
\* in the file
C21_Witness ==
    /\ used.saves = 0 /\ used.toggles = 0 /\ used.faults = 0
    /\ \E i \in 1..Len(refreshes) :
          /\ refreshes[i].owner = "timer"
          /\ \E k \in 1..Len(refreshes[i].got) :
                /\ refreshes[i].list[k].path = FileB.path
                /\ refreshes[i].got[k] = Some(noteContent)
    /\ selectedNote = Some(FileB)
    /\ disk[FileB.path] = noteContent
    /\ \E l \in TypedLines : l \in Range(Split(noteContent, "\n"))

\* ---- Properties of link resolution, checked under BacklinkSpec ----

BlAll == flattenNotes(blNotes)

\* the first note of the flattened tree that satisfies Test
BlFirst(Test(_)) == BlAll[MinOf({i \in 1..Len(BlAll) : Test(BlAll[i])})]
BlSome(Test(_)) == \E i \in 1..Len(BlAll) : Test(BlAll[i])

\* key ends with the segments of target
EndsWithSegments(key, target) ==
    /\ Len(key) >= Len(target)
    /\ SubSeq(key, Len(key) - Len(target) + 1, Len(key)) = target
    /\ Len(key) = Len(target) \/ key[Len(key) - Len(target)] = "/"

\* the note and the key a link text stands for, by the four steps in order
ExpectedTarget(linkText) ==
    LET t == normalizePath(linkText)
        Exact(n) == PathKeyOf(n) = t
        Stripped(n) == PathKeyOf(n) = StripMd(t, FALSE)
        Appended(n) == PathKeyOf(n) = t \o DotMd
        Suffix(n) == EndsWithSegments(PathKeyOf(n), t)
        Titled(n) == normalizePath(n.title) = t
    IN IF BlSome(Exact) THEN Resolved(BlFirst(Exact), t)
       ELSE IF BlSome(Stripped) THEN Resolved(BlFirst(Stripped), StripMd(t, FALSE))
       ELSE IF BlSome(Appended) THEN Resolved(BlFirst(Appended), t \o DotMd)
       ELSE IF "/" \in Range(t)
            THEN IF BlSome(Suffix)
                 THEN Resolved(BlFirst(Suffix), PathKeyOf(BlFirst(Suffix)))
                 ELSE Unresolved
            ELSE IF BlSome(Titled) THEN Resolved(BlFirst(Titled), t)
                 ELSE Unresolved

\* the pairs (key, source id) the four steps put in the index: one for
\* every link of a loaded note that stands for another note
ExpectedEntries ==
    UNION {{<<ExpectedTarget(l).key, a.id>> :
                l \in {l \in Range(extractLinks(BlContentOf(a))) :
                          /\ ExpectedTarget(l).found
                          /\ ExpectedTarget(l).note.id # a.id}} :
               a \in BlFiles}

\* the pairs (key, source id) of the index
BlEntries ==
    UNION {{<<blIndex[i].key, id>> : id \in BlIds(blIndex[i].value)} :
               i \in 1..Len(blIndex)}

\* C22: every link is resolved by the four steps in order: the exact
\* normalized path; the path with .md stripped, then appended; for a target
\* with a slash only, the first path whose trailing segments are the target;
\* for a target without a slash only, the first note of that title.  The
\* index holds the source under the key of the first step that succeeds, and
\* nothing else.  So a target that is the path key of one note and the title
\* of another goes to the note of that path, and a target with a slash that
\* no path answers is not resolved at all.
C22_ResolutionOrder ==
    blPc = "built" => BlEntries = ExpectedEntries

\* d/t.md links to "t": t.md has that path, d/t.md itself is the first note
\* of that title; the link goes to t.md, so d/t.md is recorded under "t"
C22_Witness ==
    /\ blPc = "built"
    /\ {FileT, FileDT} \subseteq BlFiles
    /\ BlContentOf(FileDT) = Link(<<"t">>)
    /\ BlFirst(LAMBDA n : normalizePath(n.title) = <<"t">>) = FileDT
    /\ <<(<<"t">>), FileDT.id>> \in BlEntries

\* the notes whose normalized title is that of the link text
BlTitled(l) == {n \in BlFiles : normalizePath(n.title) = normalizePath(l)}

\* a links to a bare title that several notes share and no path answers
BlLinksToSharedTitle(a, l) ==
    /\ l \in Range(extractLinks(BlContentOf(a)))
    /\ "/" \notin Range(normalizePath(l))
    /\ ~ResolveByPath(normalizePath(l), BlPathMap).found
    /\ Cardinality(BlTitled(l)) > 1

\* a has a link that the four steps resolve to b
BlExpectedTo(a, b) ==
    \E l \in Range(extractLinks(BlContentOf(a))) :
        ExpectedTarget(l).found /\ ExpectedTarget(l).note = b

\* C23: when a source links to a bare title that several notes share and
\* that no path answers, the link goes to the first of those notes in
\* flattened order: getBacklinks of that note includes the source, and
\* getBacklinks of another note of the title includes the source only if
\* some link of the source goes to that other note.
C23_DuplicateTitles ==
    blPc = "built" =>
        \A a \in BlFiles :
            \A l \in {l \in Range(extractLinks(BlContentOf(a))) : BlLinksToSharedTitle(a, l)} :
                LET first == BlFirst(LAMBDA n : n \in BlTitled(l))
                IN /\ ExpectedTarget(l).note = first
                   /\ first # a => a.id \in BlIds(getBacklinks(Some(first), blIndex))
                   /\ \A o \in BlTitled(l) \ {first, a} :
                          a.id \in BlIds(getBacklinks(Some(o), blIndex))
                              => BlExpectedTo(a, o)

MyTag == <<"m","y","-","t","a","g">>

\* C24: for the wikilink with an alias, "[[My Tag|alias]]", outside code
\* spans and fences, both functions add the part before the bar, trimmed,
\* lowercased and hyphenated, as a tag, and never the alias
C24_AliasTarget ==
    /\ (tpPc = "scanned" /\ TpLines[tpLine] = TagAlias) =>
          /\ MyTag \in Range(tpLineTags)
          /\ <<"a","l","i","a","s">> \notin Range(tpLineTags)
    /\ (tpPc \in {"extracted", "scanned"}
            /\ \E i \in 1..Len(TpLines) : Unfenced(i) /\ TpLines[i] = TagAlias) =>
          /\ MyTag \in Range(tpTags)
          /\ <<"a","l","i","a","s">> \notin Range(tpTags)

\* ---- Properties of the due date, checked under TaskSpec ----

\* the dates a line holds in one of the forms due:D, due D and @due(D)
DueFormDates(line) ==
    {SubSeq(line, p + 4, p + 13) :
        p \in {p \in 1..Len(line) :
                  /\ HasAt(ToLower(line), p, <<"d","u","e">>)
                  /\ p + 3 <= Len(line)
                  /\ line[p + 3] \in {":", " "}
                  /\ IsDateAt(line, p + 4)}}
    \cup
    {SubSeq(line, p + 5, p + 14) :
        p \in {p \in 1..Len(line) :
                  /\ HasAt(ToLower(line), p, <<"@","d","u","e","(">>)
                  /\ IsDateAt(line, p + 5)
                  /\ HasAt(line, p + 15, <<")">>)}}

\* C25: the due field of a parsed task is set exactly when its line holds a
\* date in one of the forms due:YYYY-MM-DD, due YYYY-MM-DD and
\* @due(YYYY-MM-DD), and is then such a date; a task line with none of the
\* three forms has no due value
C25_DueForms ==
    tkPc = "parsed" =>
        \A t \in Range(tkTasks) :
            LET line == Get(t.originalLine)
            IN /\ (t.due # None) <=> (DueFormDates(line) # {})
               /\ t.due # None => Get(t.due) \in DueFormDates(line)

\* ---- Properties of the task references, checked under TaskSpec ----

\* C26: for every task of a parse, the line of the content at its lineNumber
\* is its originalLine, verbatim; the tasks come in strictly increasing
\* lineNumber order; no two tasks of the parse have the same id
C26_TaskReferences ==
    tkPc = "parsed" =>
        /\ \A i \in 1..Len(tkTasks) :
              /\ tkTasks[i].lineNumber # None
              /\ Get(tkTasks[i].lineNumber) \in 0..(Len(TkLines) - 1)
              /\ tkTasks[i].originalLine = Some(TkLines[Get(tkTasks[i].lineNumber) + 1])
        /\ \A i \in 1..Len(tkTasks), j \in 1..Len(tkTasks) :
              i < j => /\ Get(tkTasks[i].lineNumber) < Get(tkTasks[j].lineNumber)
                       /\ tkTasks[i].id # tkTasks[j].id

\* two tasks parsed from two lines of the same text
C26_Witness ==
    /\ tkPc = "parsed"
    /\ Len(tkTasks) = 2
    /\ tkTasks[1].originalLine = tkTasks[2].originalLine
    /\ tkTasks[1].id # tkTasks[2].id

\* ---- Properties of the aggregation, checked under RefreshSpec ----

\* the place of a note path in the flattened tree
NoteIndex(path) ==
    CHOOSE k \in 1..Len(flattenNotes(notes)) : flattenNotes(notes)[k].path = path

\* what task p, parsed from the content of note n, is in the collection
Carried(p, n) ==
    [p EXCEPT !.notePath = Some(n.path),
              !.project = IF Contains(ToLower(Get(p.originalLine)), ProjectKeyword)
                          THEN p.project ELSE Some(n.title)]

\* C27: the collection a refresh publishes holds, for every note and every
\* task parsed from the content the refresh read for it, that task with the
\* path of the note and, when its line has no project: field, the title of
\* the note as project, and nothing else; the tasks come in depth-first
\* flattened note order and in line order within a note.
C27_AggregationOrder ==
    [][Len(refreshes') < Len(refreshes) =>
          \E i \in 1..Len(refreshes) :
              LET r == refreshes[i]
                  all == flattenNotes(notes)
              IN /\ refreshes' = RemoveAt(refreshes, i)
                 /\ Len(r.got) = Len(all)
                 /\ Range(tasksAll') =
                        UNION {{Carried(p, all[k]) :
                                   p \in Range(parseTasksFromMarkdown(Get(r.got[k])))} :
                               k \in 1..Len(all)}
                 /\ \A a \in 1..Len(tasksAll'), b \in 1..Len(tasksAll') :
                        a < b =>
                           LET ka == NoteIndex(Get(tasksAll'[a].notePath))
                               kb == NoteIndex(Get(tasksAll'[b].notePath))
                           IN \/ ka < kb
                              \/ /\ ka = kb
                                 /\ Get(tasksAll'[a].lineNumber)
                                        < Get(tasksAll'[b].lineNumber)]_vars

\* tasks of d/t.md, which lies in a folder, come before a task of b.md; one
\* has the project of its line and one the title of its note
C27_Witness ==
    /\ refreshes = <<>>
    /\ Len(tasksAll) = 3
    /\ tasksAll[1].notePath = Some(FileDT.path)
    /\ tasksAll[1].project = Some(FileDT.title)
    /\ tasksAll[2].notePath = Some(FileDT.path)
    /\ tasksAll[3].notePath = Some(FileB.path)
    /\ tasksAll[3].project = Some(<<"p", "1">>)

\* ---- Overlapping rebuilds of the backlink index ----

\* b.md is empty or links to t; t.md holds "#w"
RebuildDisks ==
    { [p \in PathsOf(VaultTree) |-> IF p = FileB.path THEN cb ELSE DocTag] :
          cb \in {<<>>, Link(<<"t">>)} }

RebuildInit ==
    /\ TaskIdle
    /\ BlIdle
    /\ TagIdle
    /\ AppConstructed
    /\ disk \in RebuildDisks

\* the vault is loaded, notes are opened, wikilinks are typed, and the
\* content is saved by the timer and by hand
RebuildNext ==
    \/ OpenVault
    \/ LoadNotesListed
    \/ LoadNotesRefreshed
    \/ LoadNotesBuilt
    \/ OpenNote
    \/ OpenNoteRead
    \/ OpenNoteBuilt
    \/ TypeLink
    \/ AutosaveFire
    \/ AutosaveWritten
    \/ AutosaveWriteFailed
    \/ AutosaveBuilt
    \/ AutosaveRefreshTimer
    \/ SaveNote
    \/ SaveNoteWritten
    \/ SaveNoteWriteFailed
    \/ SaveNoteBuilt
    \/ SaveRefreshTimer
    \/ RefreshLoaded
    \/ RefreshLoadFailed
    \/ RefreshPublish

RebuildSpec == RebuildInit /\ [][RebuildNext]_vars

\* no rebuild of the index is under way and no write is awaited
RebuildsFinished ==
    /\ ld = "done"
    /\ opens = <<>>
    /\ chains = <<>>
    /\ sv.pc = "idle"

\* C30: when overlapping rebuilds have all finished, the published index is
\* the one of the most recently started rebuild.  Every write of RebuildSpec
\* is followed at once by the start of a rebuild that takes what was written,
\* so the rebuild started last read the files as they are at the end: once
\* all have finished the published index is the index of the files.
C30_LastStartedWins ==
    RebuildsFinished => backlinksIndex = buildBacklinksIndex(notes, ReadAll)

\* ---- Termination of a refresh, checked under RefreshLiveSpec ----

\* C28: every refresh that passed the guard ends and clears the in-flight
\* flag, whether its loads succeeded or failed: the flag is set only while an
\* invocation is in flight, and a set flag is always followed by a cleared one
C28_RefreshEnds ==
    /\ [](isRefreshing => Len(refreshes) > 0)
    /\ (isRefreshing ~> ~isRefreshing)

\* a refresh started from the Refresh button after a refresh in which a load
\* failed has ended
C28_Witness ==
    /\ used.faults = 1
    /\ isRefreshing
    /\ Len(refreshes) = 1
    /\ refreshes[1].owner = "button"
    /\ \A k \in 1..Len(refreshes[1].got) : refreshes[1].got[k] = None


\* ---- Whose content an autosave writes, checked under AppSpec ----

\* In the vault of AppSpec only b.md holds task lines and only t.md holds the
\* line "#w"; typing, toggling and saving create neither.  A content that
\* parses to tasks stems from b.md, one with the line "#w" stems from t.md.
StemsFromB(content) == parseTasksFromMarkdown(content) # <<>>
StemsFromT(content) == DocTag \in Range(Split(content, "\n"))

\* C29: an autosave write to the file of a note carries content loaded from
\* or typed into that note: no autosave writes to t.md a content that stems
\* from b.md, nor to b.md a content that stems from t.md
C29_OwnContent ==
    \A i \in 1..Len(chains) :
        /\ chains[i].note = FileT => ~StemsFromB(chains[i].content)
        /\ chains[i].note = FileB => ~StemsFromT(chains[i].content)

=============================================================================
